---- MODULE Spec2Model ----
(***************************************************************************)
(* VaultHub: the Ansible Vault 1.1 (AES256) codec of src/lib/vault.        *)
(*                                                                         *)
(* Text is a sequence of Unicode code points, a Buffer is a sequence of    *)
(* bytes 0..255.  The callers in this repository (the server actions) hand *)
(* the codec strings decoded from form data, so text is well formed: it    *)
(* never holds an unpaired surrogate.                                      *)
(*                                                                         *)
(* The three library primitives (PBKDF2-HMAC-SHA256, HMAC-SHA256 and the   *)
(* AES-256 block function) are modelled as deterministic mixing functions  *)
(* of exactly the inputs the library reads; everything around them (UTF-8, *)
(* hex armoring, PKCS#7, CTR chaining, line wrapping, parsing, the error   *)
(* sanitisers) is modelled as the code computes it.                        *)
(***************************************************************************)
EXTENDS Integers, Sequences, FiniteSets, TLC

VARIABLES
    call,   \* call[c]: the locals of invocation c of encryptVaultString / decryptVaultString
    held    \* the envelope the caller holds from its last successful encrypt

vars == <<call, held>>

----------------------------------------------------------------------------
(* Program constants: src/unnamed/part_011 (lib/vault/constants.ts).       *)

\* "$ANSIBLE_VAULT"
VAULT_HEADER ==
    <<36, 65, 78, 83, 73, 66, 76, 69, 95, 86, 65, 85, 76, 84>>
\* "1.1"
VAULT_VERSION ==
    <<49, 46, 49>>
\* "AES256"
VAULT_CIPHER ==
    <<65, 69, 83, 50, 53, 54>>
PBKDF2_ITERATIONS == 10000
KEY_LENGTH == 32
IV_LENGTH == 16
SALT_LENGTH == 32
HMAC_LENGTH == 32
\* const blockSize = 16 in pkcs7Pad; the 16 of pkcs7Unpad; the AES block.
blockSize == 16
\* const lineLength = 80 in formatVaultData.
lineLength == 80

LF == 10
CR == 13
SEMICOLON == 59

\* `${VAULT_HEADER};${VAULT_VERSION};${VAULT_CIPHER}`
expectedHeader ==
    VAULT_HEADER \o <<SEMICOLON>> \o VAULT_VERSION \o <<SEMICOLON>> \o VAULT_CIPHER

----------------------------------------------------------------------------
(* The message texts of the thrown errors, as character codes.             *)

\* "Encrypted text must be a non-empty string"
MSG_ENCRYPTED_TEXT_REQUIRED ==
    <<69, 110, 99, 114, 121, 112, 116, 101, 100, 32, 116, 101, 120, 116, 32,
      109, 117, 115, 116, 32, 98, 101, 32, 97, 32, 110, 111, 110, 45, 101,
      109, 112, 116, 121, 32, 115, 116, 114, 105, 110, 103>>
\* "Password must be a non-empty string"
MSG_PASSWORD_REQUIRED ==
    <<80, 97, 115, 115, 119, 111, 114, 100, 32, 109, 117, 115, 116, 32, 98,
      101, 32, 97, 32, 110, 111, 110, 45, 101, 109, 112, 116, 121, 32, 115,
      116, 114, 105, 110, 103>>
\* "Plain text must be a non-empty string"
MSG_PLAIN_TEXT_REQUIRED ==
    <<80, 108, 97, 105, 110, 32, 116, 101, 120, 116, 32, 109, 117, 115, 116,
      32, 98, 101, 32, 97, 32, 110, 111, 110, 45, 101, 109, 112, 116, 121,
      32, 115, 116, 114, 105, 110, 103>>
\* "Invalid vault format: too short"
MSG_TOO_SHORT ==
    <<73, 110, 118, 97, 108, 105, 100, 32, 118, 97, 117, 108, 116, 32, 102,
      111, 114, 109, 97, 116, 58, 32, 116, 111, 111, 32, 115, 104, 111, 114,
      116>>
\* "Invalid vault format: expected " followed by a double quote
MSG_EXPECTED_PREFIX ==
    <<73, 110, 118, 97, 108, 105, 100, 32, 118, 97, 117, 108, 116, 32, 102,
      111, 114, 109, 97, 116, 58, 32, 101, 120, 112, 101, 99, 116, 101, 100,
      32, 34>>
\* double quote, ", got ", double quote
MSG_EXPECTED_GOT ==
    <<34, 44, 32, 103, 111, 116, 32, 34>>
\* "Invalid vault format: contains non-hexadecimal characters"
MSG_BODY_NON_HEX ==
    <<73, 110, 118, 97, 108, 105, 100, 32, 118, 97, 117, 108, 116, 32, 102,
      111, 114, 109, 97, 116, 58, 32, 99, 111, 110, 116, 97, 105, 110, 115,
      32, 110, 111, 110, 45, 104, 101, 120, 97, 100, 101, 99, 105, 109, 97,
      108, 32, 99, 104, 97, 114, 97, 99, 116, 101, 114, 115>>
\* "Invalid vault format: expected exactly salt, hmac, and ciphertext separated by newlines"
MSG_PART_COUNT ==
    <<73, 110, 118, 97, 108, 105, 100, 32, 118, 97, 117, 108, 116, 32, 102,
      111, 114, 109, 97, 116, 58, 32, 101, 120, 112, 101, 99, 116, 101, 100,
      32, 101, 120, 97, 99, 116, 108, 121, 32, 115, 97, 108, 116, 44, 32,
      104, 109, 97, 99, 44, 32, 97, 110, 100, 32, 99, 105, 112, 104, 101,
      114, 116, 101, 120, 116, 32, 115, 101, 112, 97, 114, 97, 116, 101,
      100, 32, 98, 121, 32, 110, 101, 119, 108, 105, 110, 101, 115>>
\* "Invalid vault format: components contain non-hexadecimal characters"
MSG_COMPONENT_NON_HEX ==
    <<73, 110, 118, 97, 108, 105, 100, 32, 118, 97, 117, 108, 116, 32, 102,
      111, 114, 109, 97, 116, 58, 32, 99, 111, 109, 112, 111, 110, 101, 110,
      116, 115, 32, 99, 111, 110, 116, 97, 105, 110, 32, 110, 111, 110, 45,
      104, 101, 120, 97, 100, 101, 99, 105, 109, 97, 108, 32, 99, 104, 97,
      114, 97, 99, 116, 101, 114, 115>>
\* "Invalid vault format: salt should be "
MSG_SALT_PREFIX ==
    <<73, 110, 118, 97, 108, 105, 100, 32, 118, 97, 117, 108, 116, 32, 102,
      111, 114, 109, 97, 116, 58, 32, 115, 97, 108, 116, 32, 115, 104, 111,
      117, 108, 100, 32, 98, 101, 32>>
\* "Invalid vault format: HMAC should be "
MSG_HMAC_PREFIX ==
    <<73, 110, 118, 97, 108, 105, 100, 32, 118, 97, 117, 108, 116, 32, 102,
      111, 114, 109, 97, 116, 58, 32, 72, 77, 65, 67, 32, 115, 104, 111,
      117, 108, 100, 32, 98, 101, 32>>
\* " bytes, got "
MSG_BYTES_GOT ==
    <<32, 98, 121, 116, 101, 115, 44, 32, 103, 111, 116, 32>>
\* "Invalid vault format: ciphertext is empty"
MSG_CIPHERTEXT_EMPTY ==
    <<73, 110, 118, 97, 108, 105, 100, 32, 118, 97, 117, 108, 116, 32, 102,
      111, 114, 109, 97, 116, 58, 32, 99, 105, 112, 104, 101, 114, 116, 101,
      120, 116, 32, 105, 115, 32, 101, 109, 112, 116, 121>>
\* "HMAC verification failed: incorrect password or corrupted data"
MSG_HMAC_FAILED ==
    <<72, 77, 65, 67, 32, 118, 101, 114, 105, 102, 105, 99, 97, 116, 105,
      111, 110, 32, 102, 97, 105, 108, 101, 100, 58, 32, 105, 110, 99, 111,
      114, 114, 101, 99, 116, 32, 112, 97, 115, 115, 119, 111, 114, 100, 32,
      111, 114, 32, 99, 111, 114, 114, 117, 112, 116, 101, 100, 32, 100, 97,
      116, 97>>
\* "Invalid padding: empty buffer"
MSG_PAD_EMPTY ==
    <<73, 110, 118, 97, 108, 105, 100, 32, 112, 97, 100, 100, 105, 110, 103,
      58, 32, 101, 109, 112, 116, 121, 32, 98, 117, 102, 102, 101, 114>>
\* "Invalid padding: pad byte out of range"
MSG_PAD_RANGE ==
    <<73, 110, 118, 97, 108, 105, 100, 32, 112, 97, 100, 100, 105, 110, 103,
      58, 32, 112, 97, 100, 32, 98, 121, 116, 101, 32, 111, 117, 116, 32,
      111, 102, 32, 114, 97, 110, 103, 101>>
\* "Invalid padding: buffer too short"
MSG_PAD_SHORT ==
    <<73, 110, 118, 97, 108, 105, 100, 32, 112, 97, 100, 100, 105, 110, 103,
      58, 32, 98, 117, 102, 102, 101, 114, 32, 116, 111, 111, 32, 115, 104,
      111, 114, 116>>
\* "Invalid padding: incorrect padding bytes"
MSG_PAD_BYTES ==
    <<73, 110, 118, 97, 108, 105, 100, 32, 112, 97, 100, 100, 105, 110, 103,
      58, 32, 105, 110, 99, 111, 114, 114, 101, 99, 116, 32, 112, 97, 100,
      100, 105, 110, 103, 32, 98, 121, 116, 101, 115>>
\* "Unable to decrypt content. Please check the password and format."
MSG_UNABLE_TO_DECRYPT ==
    <<85, 110, 97, 98, 108, 101, 32, 116, 111, 32, 100, 101, 99, 114, 121,
      112, 116, 32, 99, 111, 110, 116, 101, 110, 116, 46, 32, 80, 108, 101,
      97, 115, 101, 32, 99, 104, 101, 99, 107, 32, 116, 104, 101, 32, 112,
      97, 115, 115, 119, 111, 114, 100, 32, 97, 110, 100, 32, 102, 111, 114,
      109, 97, 116, 46>>
\* "Unable to encrypt content. Please verify input and try again."
MSG_UNABLE_TO_ENCRYPT ==
    <<85, 110, 97, 98, 108, 101, 32, 116, 111, 32, 101, 110, 99, 114, 121,
      112, 116, 32, 99, 111, 110, 116, 101, 110, 116, 46, 32, 80, 108, 101,
      97, 115, 101, 32, 118, 101, 114, 105, 102, 121, 32, 105, 110, 112,
      117, 116, 32, 97, 110, 100, 32, 116, 114, 121, 32, 97, 103, 97, 105,
      110, 46>>
\* The texts the catch blocks look for with error.message.includes(...).
\* "Cannot create a string longer than 0x1fffffe8 characters": what
\* Buffer.toString throws (ERR_STRING_TOO_LONG) when its result would exceed
\* the longest string of the engine.
MSG_STRING_TOO_LONG ==
    <<67, 97, 110, 110, 111, 116, 32, 99, 114, 101, 97, 116, 101, 32, 97,
      32, 115, 116, 114, 105, 110, 103, 32, 108, 111, 110, 103, 101, 114,
      32, 116, 104, 97, 110, 32, 48, 120, 49, 102, 102, 102, 102, 102, 101,
      56, 32, 99, 104, 97, 114, 97, 99, 116, 101, 114, 115>>

\* "Array buffer allocation failed": what Buffer.alloc and Buffer.concat
\* throw when the memory is not to be had.
MSG_ALLOCATION_FAILED ==
    <<65, 114, 114, 97, 121, 32, 98, 117, 102, 102, 101, 114, 32, 97, 108,
      108, 111, 99, 97, 116, 105, 111, 110, 32, 102, 97, 105, 108, 101,
      100>>

\* "HMAC verification failed"
NEEDLE_HMAC ==
    <<72, 77, 65, 67, 32, 118, 101, 114, 105, 102, 105, 99, 97, 116, 105,
      111, 110, 32, 102, 97, 105, 108, 101, 100>>
\* "Invalid vault format"
NEEDLE_FORMAT ==
    <<73, 110, 118, 97, 108, 105, 100, 32, 118, 97, 117, 108, 116, 32, 102,
      111, 114, 109, 97, 116>>
\* "string"
NEEDLE_STRING ==
    <<115, 116, 114, 105, 110, 103>>
\* "Invalid padding"
NEEDLE_PADDING ==
    <<73, 110, 118, 97, 108, 105, 100, 32, 112, 97, 100, 100, 105, 110,
      103>>

----------------------------------------------------------------------------
(* Strings: String.prototype.trim / split / includes / replace, and the    *)
(* regular expressions of parseVaultData.                                  *)

\* The characters \s and trim() treat as white space (ECMAScript WhiteSpace
\* and LineTerminator).
WhiteSpace ==
    {9, 10, 11, 12, 13, 32, 160, 5760, 8232, 8233, 8239, 8287, 12288, 65279}
        \cup (8192..8202)

IsWhiteSpace(ch) == ch \in WhiteSpace

\* [0-9a-fA-F]
IsHexDigit(ch) ==
    \/ ch \in 48..57
    \/ ch \in 97..102
    \/ ch \in 65..70

\* /^[0-9a-fA-F]*$/.test(s)
IsHexStar(s) == \A i \in 1..Len(s) : IsHexDigit(s[i])

\* /^[0-9a-fA-F]+$/.test(s)
IsHexPlus(s) == Len(s) > 0 /\ IsHexStar(s)

RECURSIVE FirstNonWs(_, _)
FirstNonWs(s, i) ==
    IF i > Len(s) THEN i
    ELSE IF IsWhiteSpace(s[i]) THEN FirstNonWs(s, i + 1) ELSE i

RECURSIVE LastNonWs(_, _)
LastNonWs(s, i) ==
    IF i < 1 THEN i
    ELSE IF IsWhiteSpace(s[i]) THEN LastNonWs(s, i - 1) ELSE i

\* s.trimStart() in the place of s.trim()
TrimStart(s) == SubSeq(s, FirstNonWs(s, 1), Len(s))

\* s.trim()
Trim(s) == SubSeq(s, FirstNonWs(s, 1), LastNonWs(s, Len(s)))

\* s.replace(/\r/g, "")
StripCR(s) == SelectSeq(s, LAMBDA ch : ch # CR)

\* StripWhiteSpace removing the spaces and line feeds alone.
StripSpacesOnly(s) == SelectSeq(s, LAMBDA ch : ch \notin {32, LF})

\* s.replace(/\s+/g, "")
StripWhiteSpace(s) == SelectSeq(s, LAMBDA ch : ~IsWhiteSpace(ch))

\* The positions of the line feeds of s, ascending.
NewlinePositions(s) ==
    SelectSeq([i \in 1..Len(s) |-> i], LAMBDA i : s[i] = LF)

\* s.split("\n")
SplitLines(s) ==
    LET nl == NewlinePositions(s)
        n  == Len(nl)
        from(k) == IF k = 1 THEN 1 ELSE nl[k - 1] + 1
        to(k)   == IF k = n + 1 THEN Len(s) ELSE nl[k] - 1
    IN  [k \in 1..(n + 1) |-> SubSeq(s, from(k), to(k))]

\* lines[1] in the place of lines.slice(1).join(""): the second line alone.
SecondLineOnly(s) ==
    LET lines == SplitLines(s)
    IN  IF Len(lines) < 2 THEN <<>> ELSE lines[2]

\* lines.slice(1).join("") for lines = s.split("\n"): the text after the
\* first line feed with every later line feed removed.
JoinAfterFirst(s) ==
    LET nl == NewlinePositions(s)
    IN  IF Len(nl) = 0 THEN <<>>
        ELSE SelectSeq(SubSeq(s, nl[1] + 1, Len(s)), LAMBDA ch : ch # LF)

\* haystack.includes(needle)
Includes(haystack, needle) ==
    \E i \in 0..(Len(haystack) - Len(needle)) :
        \A j \in 1..Len(needle) : haystack[i + j] = needle[j]

\* String(n) for n >= 0
RECURSIVE Decimal(_)
Decimal(n) ==
    IF n < 10 THEN <<48 + n>> ELSE Append(Decimal(n \div 10), 48 + (n % 10))

----------------------------------------------------------------------------
(* Buffers: hex and UTF-8.                                                 *)

\* The hex digit of a nibble, lower case: Buffer.prototype.toString("hex").
HexChar(n) == IF n < 10 THEN 48 + n ELSE 87 + n

\* The nibble of a hex digit.
Nibble(ch) ==
    IF ch \in 48..57 THEN ch - 48
    ELSE IF ch \in 97..102 THEN ch - 87
    ELSE ch - 55

\* buf.toString("hex")
HexEncode(buf) ==
    [i \in 1..(2 * Len(buf)) |->
        IF i % 2 = 1 THEN HexChar(buf[(i + 1) \div 2] \div 16)
        ELSE HexChar(buf[i \div 2] % 16)]

\* The number of leading pairs of s that are two hex digits.
HexPairs(s) ==
    LET n   == Len(s) \div 2
        bad == {k \in 1..n : ~(IsHexDigit(s[2 * k - 1]) /\ IsHexDigit(s[2 * k]))}
    IN  IF bad = {} THEN n
        ELSE (CHOOSE k \in bad : \A j \in bad : k <= j) - 1

\* Buffer.from(s, "hex"): decodes the leading pairs of hex digits and stops
\* at the first pair that is not two hex digits; a last unpaired digit is
\* dropped.
HexDecode(s) ==
    [i \in 1..HexPairs(s) |-> 16 * Nibble(s[2 * i - 1]) + Nibble(s[2 * i])]

\* The UTF-8 bytes of one code point.
Utf8OfCodePoint(cp) ==
    IF cp < 128 THEN <<cp>>
    ELSE IF cp < 2048 THEN <<192 + (cp \div 64), 128 + (cp % 64)>>
    ELSE IF cp < 65536
         THEN <<224 + (cp \div 4096), 128 + ((cp \div 64) % 64), 128 + (cp % 64)>>
         ELSE <<240 + (cp \div 262144), 128 + ((cp \div 4096) % 64),
                128 + ((cp \div 64) % 64), 128 + (cp % 64)>>

RECURSIVE Utf8EncodeRange(_, _, _)
Utf8EncodeRange(s, lo, hi) ==
    IF lo > hi THEN <<>>
    ELSE IF lo = hi THEN Utf8OfCodePoint(s[lo])
    ELSE LET mid == (lo + hi) \div 2
         IN  Utf8EncodeRange(s, lo, mid) \o Utf8EncodeRange(s, mid + 1, hi)

\* Buffer.from(s, "utf8")
Utf8Encode(s) == Utf8EncodeRange(s, 1, Len(s))

\* U+FFFD, which the decoder puts in place of every ill-formed sequence.
REPLACEMENT_CHARACTER == 65533

\* The decoding of buf[i..last], a run of bytes >= 128: every well-formed
\* sequence gives its code point, every maximal ill-formed part one U+FFFD.
RECURSIVE Utf8DecodeRun(_, _, _)
Utf8DecodeRun(buf, i, last) ==
    IF i > last THEN <<>>
    ELSE
      LET b0 == buf[i]
          need == IF b0 \in 194..223 THEN 1
                  ELSE IF b0 \in 224..239 THEN 2
                  ELSE IF b0 \in 240..244 THEN 3
                  ELSE -1
          lower == IF b0 = 224 THEN 160 ELSE IF b0 = 240 THEN 144 ELSE 128
          upper == IF b0 = 237 THEN 159 ELSE IF b0 = 244 THEN 143 ELSE 191
          cont(k) == /\ i + k <= last
                     /\ IF k = 1 THEN buf[i + k] \in lower..upper
                        ELSE buf[i + k] \in 128..191
          good == IF need >= 1 /\ cont(1)
                  THEN IF need >= 2 /\ cont(2)
                       THEN IF need >= 3 /\ cont(3) THEN 3 ELSE 2
                       ELSE 1
                  ELSE 0
          cp == IF need = 1 THEN (b0 - 192) * 64 + (buf[i + 1] - 128)
                ELSE IF need = 2
                     THEN (b0 - 224) * 4096 + (buf[i + 1] - 128) * 64
                          + (buf[i + 2] - 128)
                     ELSE (b0 - 240) * 262144 + (buf[i + 1] - 128) * 4096
                          + (buf[i + 2] - 128) * 64 + (buf[i + 3] - 128)
      IN  IF need = -1
          THEN <<REPLACEMENT_CHARACTER>> \o Utf8DecodeRun(buf, i + 1, last)
          ELSE IF good = need
               THEN <<cp>> \o Utf8DecodeRun(buf, i + need + 1, last)
          ELSE <<REPLACEMENT_CHARACTER>> \o Utf8DecodeRun(buf, i + good + 1, last)

\* The last position of the run of bytes >= 128 that starts at i.
RECURSIVE RunEnd(_, _)
RunEnd(buf, i) ==
    IF i < Len(buf) /\ buf[i + 1] >= 128 THEN RunEnd(buf, i + 1) ELSE i

\* What position i of buf adds to the decoded text: a byte below 128 is its
\* own character and ends any sequence before it; the first byte of a run
\* of bytes >= 128 stands for the whole run.
Utf8DecodeAt(buf, i) ==
    IF buf[i] < 128 THEN <<buf[i]>>
    ELSE IF i = 1 \/ buf[i - 1] < 128 THEN Utf8DecodeRun(buf, i, RunEnd(buf, i))
    ELSE <<>>

RECURSIVE Utf8DecodeRange(_, _, _)
Utf8DecodeRange(buf, lo, hi) ==
    IF lo > hi THEN <<>>
    ELSE IF lo = hi THEN Utf8DecodeAt(buf, lo)
    ELSE LET mid == (lo + hi) \div 2
         IN  Utf8DecodeRange(buf, lo, mid) \o Utf8DecodeRange(buf, mid + 1, hi)

\* buf.toString("utf8")
Utf8Decode(buf) == Utf8DecodeRange(buf, 1, Len(buf))

----------------------------------------------------------------------------
(* PKCS#7.                                                                 *)

\* pkcs7Pad adding no padding to a whole number of blocks.
pkcs7PadNoFullBlock(data) ==
    LET padLength == (blockSize - (Len(data) % blockSize)) % blockSize
    IN  data \o [i \in 1..padLength |-> padLength]

\* pkcs7Pad with the padding left at the zeroes Buffer.alloc fills it with.
pkcs7PadZeroFill(data) ==
    LET padLength == blockSize - (Len(data) % blockSize)
        padding   == [i \in 1..padLength |-> 0]
    IN  data \o padding

pkcs7Pad(data) ==
    LET padLength == blockSize - (Len(data) % blockSize)
        padding   == [i \in 1..padLength |-> padLength]
    IN  data \o padding

\* The result of a call that may throw: the value returned, or the message
\* of the Error thrown.
Returned(v) == [ok |-> TRUE, value |-> v, error |-> <<>>]
Thrown(message) == [ok |-> FALSE, value |-> <<>>, error |-> message]

\* pkcs7Unpad trusting the last byte without looking at the other padding
\* bytes.
pkcs7UnpadLastByteOnly(buf) ==
    IF Len(buf) = 0 THEN Thrown(MSG_PAD_EMPTY)
    ELSE
      LET padLen == buf[Len(buf)]
      IN  IF padLen < 1 \/ padLen > 16 THEN Thrown(MSG_PAD_RANGE)
          ELSE IF Len(buf) < padLen THEN Thrown(MSG_PAD_SHORT)
          ELSE Returned(SubSeq(buf, 1, Len(buf) - padLen))

pkcs7Unpad(buf) ==
    IF Len(buf) = 0 THEN Thrown(MSG_PAD_EMPTY)
    ELSE
      LET padLen == buf[Len(buf)]
      IN  IF padLen < 1 \/ padLen > 16 THEN Thrown(MSG_PAD_RANGE)
          ELSE IF Len(buf) < padLen THEN Thrown(MSG_PAD_SHORT)
          ELSE IF \E i \in (Len(buf) - padLen + 1)..Len(buf) : buf[i] # padLen
               THEN Thrown(MSG_PAD_BYTES)
          ELSE Returned(SubSeq(buf, 1, Len(buf) - padLen))

----------------------------------------------------------------------------
(* The library primitives of node:crypto.                                  *)

\* The output size of SHA-256 in bytes: PBKDF2 and HMAC work in blocks of it.
HASH_LENGTH == 32

\* Every byte of seq at a position congruent to k modulo HASH_LENGTH, mixed.
RECURSIVE FoldAt(_, _)
FoldAt(seq, k) ==
    IF k > Len(seq) THEN 0 ELSE seq[k] + 1 + FoldAt(seq, k + HASH_LENGTH)

\* pbkdf2(password, salt, iterations, keylen, "sha256"): keylen bytes, made
\* of blocks of HASH_LENGTH bytes, each a function of the password bytes,
\* the salt, the iteration count and the block number.
pbkdf2(passwordBytes, salt, iterations, keylen) ==
    [j \in 1..keylen |->
        LET block == ((j - 1) \div HASH_LENGTH) + 1
            k     == ((j - 1) % HASH_LENGTH) + 1
        IN  (3 * FoldAt(salt, k) + FoldAt(passwordBytes, k) + 17 * block
             + 29 * k + iterations) % 256]

RECURSIVE WeightedSum(_, _, _, _)
WeightedSum(data, lo, hi, j) ==
    IF lo > hi THEN 0
    ELSE IF lo = hi THEN (data[lo] + 1) * (2 * ((lo + j) % 128) + 1)
    ELSE LET mid == (lo + hi) \div 2
         IN  WeightedSum(data, lo, mid, j) + WeightedSum(data, mid + 1, hi, j)

\* The digest of an HMAC that was never given the data.
HmacSha256NoUpdate(key, data) ==
    [j \in 1..HASH_LENGTH |-> (5 * FoldAt(key, j)) % 256]

\* createHmac("sha256", key).update(data).digest(): HASH_LENGTH bytes, a
\* function of the key and of every byte of the data.
HmacSha256(key, data) ==
    [j \in 1..HASH_LENGTH |-> (5 * FoldAt(key, j) + WeightedSum(data, 1, Len(data), j)) % 256]

\* Bitwise exclusive or of two bytes.
Xor(a, b) ==
    LET bit(k) == ((a \div (2 ^ k)) + (b \div (2 ^ k))) % 2
    IN  bit(0) + 2 * bit(1) + 4 * bit(2) + 8 * bit(3) + 16 * bit(4)
        + 32 * bit(5) + 64 * bit(6) + 128 * bit(7)

RECURSIVE KeySum(_, _)
KeySum(key, i) ==
    IF i > Len(key) THEN 0 ELSE (2 * i + 1) * key[i] + KeySum(key, i + 1)

\* The cipher of createCipheriv("aes-256-ctr", key, iv) and the decipher of
\* createDecipheriv("aes-256-ctr", key, iv), update(input) then final():
\* counter mode, the same transform in both directions. Byte i of the input
\* is xored with byte (i mod 16) of the block cipher applied to the counter
\* iv + (i div 16); the output has the length of the input.
AesCtr(key, iv, input) ==
    LET k == KeySum(key, 1)
    IN  [i \in 1..Len(input) |->
            LET block == (i - 1) \div blockSize
                off   == ((i - 1) % blockSize) + 1
                ivAt  == IF off <= Len(iv) THEN iv[off] ELSE 0
            IN  Xor(input[i], (k + 7 * ivAt + 13 * block + 31 * off) % 256)]

----------------------------------------------------------------------------
(* lib/vault/utils.ts                                                      *)

\* deriveKeys stretching the salt alone.
deriveKeysSaltOnly(password, salt) ==
    LET derivedKey == pbkdf2(<<>>, salt, PBKDF2_ITERATIONS,
                             KEY_LENGTH + HMAC_LENGTH + IV_LENGTH)
    IN  [encryptionKey |-> SubSeq(derivedKey, 1, KEY_LENGTH),
         hmacKey       |-> SubSeq(derivedKey, KEY_LENGTH + 1, KEY_LENGTH + HMAC_LENGTH),
         iv            |-> SubSeq(derivedKey, KEY_LENGTH + HMAC_LENGTH + 1,
                                  KEY_LENGTH + HMAC_LENGTH + IV_LENGTH)]

\* deriveKeys with the iv cut from the start of the HMAC key.
deriveKeysOverlapping(password, salt) ==
    LET derivedKey == pbkdf2(Utf8Encode(password), salt, PBKDF2_ITERATIONS,
                             KEY_LENGTH + HMAC_LENGTH + IV_LENGTH)
    IN  [encryptionKey |-> SubSeq(derivedKey, 1, KEY_LENGTH),
         hmacKey       |-> SubSeq(derivedKey, KEY_LENGTH + 1, KEY_LENGTH + HMAC_LENGTH),
         iv            |-> SubSeq(derivedKey, KEY_LENGTH + 1, KEY_LENGTH + IV_LENGTH)]

deriveKeys(password, salt) ==
    LET derivedKey == pbkdf2(Utf8Encode(password), salt, PBKDF2_ITERATIONS,
                             KEY_LENGTH + HMAC_LENGTH + IV_LENGTH)
    IN  [encryptionKey |-> SubSeq(derivedKey, 1, KEY_LENGTH),
         hmacKey       |-> SubSeq(derivedKey, KEY_LENGTH + 1, KEY_LENGTH + HMAC_LENGTH),
         iv            |-> SubSeq(derivedKey, KEY_LENGTH + HMAC_LENGTH + 1,
                                  KEY_LENGTH + HMAC_LENGTH + IV_LENGTH)]

----------------------------------------------------------------------------
(* lib/vault/encrypt.ts: formatVaultData                                   *)

\* WrapLines with slices one character too long.
RECURSIVE WrapLinesOverlong(_, _)
WrapLinesOverlong(hexData, i) ==
    IF i >= Len(hexData) THEN <<>>
    ELSE LET end == IF i + lineLength + 1 < Len(hexData) THEN i + lineLength + 1
                    ELSE Len(hexData)
         IN  <<SubSeq(hexData, i + 1, end)>> \o WrapLinesOverlong(hexData, i + lineLength)

\* for (let i = 0; i < hexData.length; i += lineLength)
\*   lines.push(hexData.slice(i, i + lineLength))
RECURSIVE WrapLines(_, _)
WrapLines(hexData, i) ==
    IF i >= Len(hexData) THEN <<>>
    ELSE LET end == IF i + lineLength < Len(hexData) THEN i + lineLength
                    ELSE Len(hexData)
         IN  <<SubSeq(hexData, i + 1, end)>> \o WrapLines(hexData, i + lineLength)

\* lines.join("\n")
RECURSIVE JoinLines(_)
JoinLines(lines) ==
    IF Len(lines) = 0 THEN <<>>
    ELSE IF Len(lines) = 1 THEN lines[1]
    ELSE lines[1] \o <<LF>> \o JoinLines(Tail(lines))

formatVaultData(salt, hmac, ciphertext) ==
    LET saltHex       == HexEncode(salt)
        hmacHex       == HexEncode(hmac)
        ciphertextHex == HexEncode(ciphertext)
        innerPayload  == saltHex \o <<LF>> \o hmacHex \o <<LF>> \o ciphertextHex
        hexData       == HexEncode(Utf8Encode(innerPayload))
        lines         == <<expectedHeader>> \o WrapLines(hexData, 0)
    IN  JoinLines(lines)

----------------------------------------------------------------------------
(* lib/vault/decrypt.ts: parseVaultData, verifyHmac                        *)

NoBuffers == [salt |-> <<>>, hmac |-> <<>>, ciphertext |-> <<>>]

\* The outcome of parseVaultData: the three buffers, or the message of the
\* Error it throws; checks lists the validations it ran, in order.
ParseThrown(message, checks) ==
    [ok |-> FALSE, value |-> NoBuffers, error |-> message, checks |-> checks]

parseVaultData(encryptedText) ==
    LET trimmed          == Trim(encryptedText)
        lines            == SplitLines(trimmed)
        header           == lines[1]
        normalizedHeader == Trim(StripCR(header))
        hexData          == StripWhiteSpace(JoinAfterFirst(trimmed))
        innerPayload     == Utf8Decode(HexDecode(hexData))
        parts            == SplitLines(innerPayload)
        saltHex          == parts[1]
        hmacHex          == parts[2]
        ciphertextHex    == parts[3]
        salt             == HexDecode(saltHex)
        hmac             == HexDecode(hmacHex)
        ciphertext       == HexDecode(ciphertextHex)
    IN  IF Len(lines) < 2
        THEN ParseThrown(MSG_TOO_SHORT, <<"lines">>)
        ELSE IF normalizedHeader # expectedHeader
        THEN ParseThrown(MSG_EXPECTED_PREFIX \o expectedHeader \o MSG_EXPECTED_GOT
                         \o header \o <<34>>,
                         <<"lines", "header">>)
        ELSE IF ~IsHexPlus(hexData)
        THEN ParseThrown(MSG_BODY_NON_HEX, <<"lines", "header", "bodyHex">>)
        ELSE IF Len(parts) # 3
        THEN ParseThrown(MSG_PART_COUNT, <<"lines", "header", "bodyHex", "parts">>)
        ELSE IF ~IsHexStar(saltHex) \/ ~IsHexStar(hmacHex) \/ ~IsHexStar(ciphertextHex)
        THEN ParseThrown(MSG_COMPONENT_NON_HEX,
                         <<"lines", "header", "bodyHex", "parts", "componentHex">>)
        ELSE IF Len(salt) # SALT_LENGTH
        THEN ParseThrown(MSG_SALT_PREFIX \o Decimal(SALT_LENGTH) \o MSG_BYTES_GOT
                         \o Decimal(Len(salt)),
                         <<"lines", "header", "bodyHex", "parts", "componentHex",
                           "saltLength">>)
        ELSE IF Len(hmac) # HMAC_LENGTH
        THEN ParseThrown(MSG_HMAC_PREFIX \o Decimal(HMAC_LENGTH) \o MSG_BYTES_GOT
                         \o Decimal(Len(hmac)),
                         <<"lines", "header", "bodyHex", "parts", "componentHex",
                           "saltLength", "hmacLength">>)
        ELSE IF Len(ciphertext) = 0
        THEN ParseThrown(MSG_CIPHERTEXT_EMPTY,
                         <<"lines", "header", "bodyHex", "parts", "componentHex",
                           "saltLength", "hmacLength", "ciphertextLength">>)
        ELSE [ok |-> TRUE,
              value |-> [salt |-> salt, hmac |-> hmac, ciphertext |-> ciphertext],
              error |-> <<>>,
              checks |-> <<"lines", "header", "bodyHex", "parts", "componentHex",
                           "saltLength", "hmacLength", "ciphertextLength">>]

\* timingSafeEqual(a, b) for buffers of equal length.
timingSafeEqual(a, b) == \A i \in 1..Len(a) : a[i] = b[i]

\* verifyHmac comparing the lengths alone.
verifyHmacLengthOnly(expectedHmac, actualHmac) ==
    Len(expectedHmac) = Len(actualHmac)

verifyHmac(expectedHmac, actualHmac) ==
    IF Len(expectedHmac) # Len(actualHmac) THEN FALSE
    ELSE timingSafeEqual(expectedHmac, actualHmac)

----------------------------------------------------------------------------
(* Argument values. The functions are typed (text: string) but check the   *)
(* type at run time, so an argument is a string, null or a number.         *)

String(v) == [type |-> "string", value |-> v]
Null      == [type |-> "null", value |-> <<>>]
Number(n) == [type |-> "number", value |-> <<n>>]

\* !x
Falsy(x) ==
    \/ x.type = "null"
    \/ x.type = "string" /\ x.value = <<>>
    \/ x.type = "number" /\ x.value = <<0>>

\* NotNonEmptyString without the typeof test.
FalsyOnly(x) == Falsy(x)

\* !x || typeof x !== "string"
NotNonEmptyString(x) == Falsy(x) \/ x.type # "string"

----------------------------------------------------------------------------
(* The catch blocks: what reaches the caller for an Error thrown inside    *)
(* the try block. cause holds the original message when the new Error is   *)
(* built with { cause: error }.                                            *)

NoError == [message |-> <<>>, cause |-> <<>>]

encryptCatch(message) ==
    IF Includes(message, NEEDLE_STRING)
    THEN [message |-> message, cause |-> <<>>]
    ELSE [message |-> MSG_UNABLE_TO_ENCRYPT, cause |-> <<message>>]

\* decryptCatch without the test for "Invalid padding".
decryptCatchNoPaddingTest(message) ==
    IF Includes(message, NEEDLE_HMAC)
    THEN [message |-> MSG_UNABLE_TO_DECRYPT, cause |-> <<>>]
    ELSE IF Includes(message, NEEDLE_FORMAT)
    THEN [message |-> message, cause |-> <<>>]
    ELSE IF Includes(message, NEEDLE_STRING)
    THEN [message |-> message, cause |-> <<>>]
    ELSE [message |-> MSG_UNABLE_TO_DECRYPT, cause |-> <<message>>]

decryptCatch(message) ==
    IF Includes(message, NEEDLE_HMAC)
    THEN [message |-> MSG_UNABLE_TO_DECRYPT, cause |-> <<>>]
    ELSE IF Includes(message, NEEDLE_FORMAT)
    THEN [message |-> message, cause |-> <<>>]
    ELSE IF Includes(message, NEEDLE_STRING)
    THEN [message |-> message, cause |-> <<>>]
    ELSE IF Includes(message, NEEDLE_PADDING)
    THEN [message |-> MSG_UNABLE_TO_DECRYPT, cause |-> <<>>]
    ELSE [message |-> MSG_UNABLE_TO_DECRYPT, cause |-> <<message>>]

----------------------------------------------------------------------------
(* Bounds of the model and the inputs drawn within them.                   *)

\* Invocations that may be in progress at once.
NumCalls == 2
\* The salts randomBytes may return.
NumSalts == 2
\* Plaintexts reach MaxBlocks cipher blocks.
MaxBlocks == 2

Calls == 1..NumCalls

Repeat(ch, n) == [i \in 1..n |-> ch]

\* randomBytes(SALT_LENGTH): one of NumSalts buffers of SALT_LENGTH bytes.
Salts == {[i \in 1..SALT_LENGTH |-> (101 * n + 7 * i) % 256] : n \in 1..NumSalts}

\* "a", "é", "世", the emoji U+1F30D (1, 2, 3 and 4 bytes of UTF-8), a text
\* mixing them with a line feed, and texts of one byte less than, exactly,
\* and one byte more than a whole number of cipher blocks.
PlainTexts ==
    {<<97>>, <<233>>, <<19990>>, <<127757>>, <<72, 233, 10, 19990, 32, 127757>>}
        \cup {Repeat(97, b * blockSize + d) : b \in 1..MaxBlocks, d \in {-1, 0, 1}}

\* "pw", "pé", "p"
Passwords == {<<112, 119>>, <<112, 233>>}
OtherPasswords == {<<112>>}

\* Arguments that are no non-empty string: "", null, 42.
InvalidArgs == {String(<<>>), Null, Number(42)}

----------------------------------------------------------------------------
(* The state of one invocation, and of the caller.                         *)

NoOrigin ==
    [kind |-> "none", header |-> <<>>, defect |-> "none", twoLines |-> FALSE,
     digits |-> <<>>]

IdleCall ==
    [op |-> "none", pc |-> "Idle",
     text |-> Null, password |-> Null,
     salt |-> <<>>, encryptionKey |-> <<>>, hmacKey |-> <<>>, iv |-> <<>>,
     hmac |-> <<>>, computedHmac |-> <<>>, ciphertext |-> <<>>,
     paddedPlaintext |-> <<>>, plaintext |-> <<>>,
     result |-> <<>>, error |-> NoError,
     trace |-> <<>>, origin |-> NoOrigin]

NoEnvelope ==
    [present |-> FALSE, envelope |-> <<>>, plainText |-> <<>>, password |-> <<>>,
     salt |-> <<>>, hmac |-> <<>>, ciphertext |-> <<>>]

Init ==
    /\ call = [c \in Calls |-> IdleCall]
    /\ held = NoEnvelope

\* The try block threw at this step; error is what the catch block rethrows.
Throw(c, error) ==
    call' = [call EXCEPT ![c].pc = "Failed", ![c].error = error]

----------------------------------------------------------------------------
(* encryptVaultString(plainText, password), statement by statement.        *)

EncryptCall(c, plainText, password) ==
    /\ call[c].pc = "Idle"
    /\ call' = [call EXCEPT ![c] =
                    [IdleCall EXCEPT !.op = "encrypt", !.pc = "Start",
                                     !.text = plainText, !.password = password]]
    /\ UNCHANGED held

EncryptValidate(c) ==
    /\ call[c].op = "encrypt" /\ call[c].pc = "Start"
    /\ IF NotNonEmptyString(call[c].text)
       THEN Throw(c, encryptCatch(MSG_PLAIN_TEXT_REQUIRED))
       ELSE IF NotNonEmptyString(call[c].password)
       THEN Throw(c, encryptCatch(MSG_PASSWORD_REQUIRED))
       ELSE call' = [call EXCEPT ![c].pc = "Validated"]
    /\ UNCHANGED held

\* EncryptSalt keeping, for a salt, the one of the envelope made before when
\* there is one.
EncryptSaltCarriedOver(c) ==
    /\ call[c].op = "encrypt" /\ call[c].pc = "Validated"
    /\ IF held.present
       THEN call' = [call EXCEPT ![c].pc = "SaltDrawn", ![c].salt = held.salt]
       ELSE \E salt \in Salts :
               call' = [call EXCEPT ![c].pc = "SaltDrawn", ![c].salt = salt,
                                    ![c].trace = Append(@, "randomBytes")]
    /\ UNCHANGED held

EncryptSalt(c) ==
    /\ call[c].op = "encrypt" /\ call[c].pc = "Validated"
    /\ \E salt \in Salts :
          call' = [call EXCEPT ![c].pc = "SaltDrawn", ![c].salt = salt,
                               ![c].trace = Append(@, "randomBytes")]
    /\ UNCHANGED held

\* EncryptDeriveKeys reading the salt from a variable that the calls in
\* progress share: the salt of the first of them that has drawn one.
EncryptDeriveKeysSharedSalt(c) ==
    /\ call[c].op = "encrypt" /\ call[c].pc = "SaltDrawn"
    /\ LET first == CHOOSE d \in DOMAIN call :
                        /\ call[d].op = "encrypt" /\ call[d].salt # <<>>
                        /\ \A e \in DOMAIN call :
                              (call[e].op = "encrypt" /\ call[e].salt # <<>>) => d <= e
           keys  == deriveKeys(call[c].password.value, call[first].salt)
       IN  call' = [call EXCEPT ![c].pc = "KeysDerived",
                                ![c].encryptionKey = keys.encryptionKey,
                                ![c].hmacKey = keys.hmacKey,
                                ![c].iv = keys.iv,
                                ![c].trace = Append(@, "deriveKeys")]
    /\ UNCHANGED held

EncryptDeriveKeys(c) ==
    /\ call[c].op = "encrypt" /\ call[c].pc = "SaltDrawn"
    /\ LET keys == deriveKeys(call[c].password.value, call[c].salt)
       IN  call' = [call EXCEPT ![c].pc = "KeysDerived",
                                ![c].encryptionKey = keys.encryptionKey,
                                ![c].hmacKey = keys.hmacKey,
                                ![c].iv = keys.iv,
                                ![c].trace = Append(@, "deriveKeys")]
    /\ UNCHANGED held

EncryptPad(c) ==
    /\ call[c].op = "encrypt" /\ call[c].pc = "KeysDerived"
    /\ call' = [call EXCEPT ![c].pc = "Padded",
                            ![c].paddedPlaintext = pkcs7Pad(Utf8Encode(call[c].text.value)),
                            ![c].trace = Append(@, "pkcs7Pad")]
    /\ UNCHANGED held

EncryptCipher(c) ==
    /\ call[c].op = "encrypt" /\ call[c].pc = "Padded"
    /\ call' = [call EXCEPT ![c].pc = "Encrypted",
                            ![c].ciphertext = AesCtr(call[c].encryptionKey, call[c].iv,
                                                     call[c].paddedPlaintext),
                            ![c].trace = Append(@, "createCipheriv")]
    /\ UNCHANGED held

EncryptTag(c) ==
    /\ call[c].op = "encrypt" /\ call[c].pc = "Encrypted"
    /\ call' = [call EXCEPT ![c].pc = "Tagged",
                            ![c].hmac = HmacSha256(call[c].hmacKey, call[c].ciphertext),
                            ![c].trace = Append(@, "createHmac")]
    /\ UNCHANGED held

\* A primitive called inside the try block throws by itself: Buffer.alloc
\* or Buffer.concat in pkcs7Pad for want of memory, toString("hex") in
\* formatVaultData for a result longer than the engine's longest string.
\* The lengths at which the runtime does so are far beyond those of the
\* model; the choice is left to the runtime.
EncryptRuntimeError(c) ==
    /\ call[c].op = "encrypt"
    /\ \/ /\ call[c].pc = "KeysDerived"
          /\ call' = [call EXCEPT ![c].pc = "Failed",
                                  ![c].error = encryptCatch(MSG_ALLOCATION_FAILED),
                                  ![c].trace = Append(@, "pkcs7Pad")]
       \/ /\ call[c].pc = "Tagged"
          /\ call' = [call EXCEPT ![c].pc = "Failed",
                                  ![c].error = encryptCatch(MSG_STRING_TOO_LONG),
                                  ![c].trace = Append(@, "formatVaultData")]
    /\ UNCHANGED held

EncryptReturn(c) ==
    /\ call[c].op = "encrypt" /\ call[c].pc = "Tagged"
    /\ call' = [call EXCEPT ![c].pc = "Done",
                            ![c].result = formatVaultData(call[c].salt, call[c].hmac,
                                                          call[c].ciphertext),
                            ![c].trace = Append(@, "formatVaultData")]
    /\ UNCHANGED held

----------------------------------------------------------------------------
(* decryptVaultString(encryptedText, password), statement by statement.    *)

DecryptCall(c, encryptedText, password, origin) ==
    /\ call[c].pc = "Idle"
    /\ call' = [call EXCEPT ![c] =
                    [IdleCall EXCEPT !.op = "decrypt", !.pc = "Start",
                                     !.text = encryptedText, !.password = password,
                                     !.origin = origin]]
    /\ UNCHANGED held

DecryptValidate(c) ==
    /\ call[c].op = "decrypt" /\ call[c].pc = "Start"
    /\ IF NotNonEmptyString(call[c].text)
       THEN Throw(c, decryptCatch(MSG_ENCRYPTED_TEXT_REQUIRED))
       ELSE IF NotNonEmptyString(call[c].password)
       THEN Throw(c, decryptCatch(MSG_PASSWORD_REQUIRED))
       ELSE call' = [call EXCEPT ![c].pc = "Validated"]
    /\ UNCHANGED held

DecryptParse(c) ==
    /\ call[c].op = "decrypt" /\ call[c].pc = "Validated"
    /\ LET parsed == parseVaultData(call[c].text.value)
       IN  IF ~parsed.ok
           THEN call' = [call EXCEPT ![c].pc = "Failed",
                                     ![c].error = decryptCatch(parsed.error),
                                     ![c].trace = Append(@, "parseVaultData")]
           ELSE call' = [call EXCEPT ![c].pc = "Parsed",
                                     ![c].salt = parsed.value.salt,
                                     ![c].hmac = parsed.value.hmac,
                                     ![c].ciphertext = parsed.value.ciphertext,
                                     ![c].trace = Append(@, "parseVaultData")]
    /\ UNCHANGED held

\* DecryptDeriveKeys going on to the decipher without the tag comparison.
DecryptDeriveKeysSkipsTag(c) ==
    /\ call[c].op = "decrypt" /\ call[c].pc = "Parsed"
    /\ LET keys == deriveKeys(call[c].password.value, call[c].salt)
       IN  call' = [call EXCEPT ![c].pc = "TagVerified",
                                ![c].encryptionKey = keys.encryptionKey,
                                ![c].hmacKey = keys.hmacKey,
                                ![c].iv = keys.iv,
                                ![c].trace = Append(@, "deriveKeys")]
    /\ UNCHANGED held

DecryptDeriveKeys(c) ==
    /\ call[c].op = "decrypt" /\ call[c].pc = "Parsed"
    /\ LET keys == deriveKeys(call[c].password.value, call[c].salt)
       IN  call' = [call EXCEPT ![c].pc = "KeysDerived",
                                ![c].encryptionKey = keys.encryptionKey,
                                ![c].hmacKey = keys.hmacKey,
                                ![c].iv = keys.iv,
                                ![c].trace = Append(@, "deriveKeys")]
    /\ UNCHANGED held

DecryptVerify(c) ==
    /\ call[c].op = "decrypt" /\ call[c].pc = "KeysDerived"
    /\ LET computedHmac == HmacSha256(call[c].hmacKey, call[c].ciphertext)
       IN  IF ~verifyHmac(call[c].hmac, computedHmac)
           THEN call' = [call EXCEPT ![c].pc = "Failed",
                                     ![c].computedHmac = computedHmac,
                                     ![c].error = decryptCatch(MSG_HMAC_FAILED),
                                     ![c].trace = @ \o <<"createHmac", "verifyHmac">>]
           ELSE call' = [call EXCEPT ![c].pc = "TagVerified",
                                     ![c].computedHmac = computedHmac,
                                     ![c].trace = @ \o <<"createHmac", "verifyHmac">>]
    /\ UNCHANGED held

DecryptDecipher(c) ==
    /\ call[c].op = "decrypt" /\ call[c].pc = "TagVerified"
    /\ call' = [call EXCEPT ![c].pc = "Decrypted",
                            ![c].paddedPlaintext = AesCtr(call[c].encryptionKey, call[c].iv,
                                                          call[c].ciphertext),
                            ![c].trace = Append(@, "createDecipheriv")]
    /\ UNCHANGED held

DecryptUnpad(c) ==
    /\ call[c].op = "decrypt" /\ call[c].pc = "Decrypted"
    /\ LET unpadded == pkcs7Unpad(call[c].paddedPlaintext)
       IN  IF ~unpadded.ok
           THEN call' = [call EXCEPT ![c].pc = "Failed",
                                     ![c].error = decryptCatch(unpadded.error),
                                     ![c].trace = Append(@, "pkcs7Unpad")]
           ELSE call' = [call EXCEPT ![c].pc = "Unpadded",
                                     ![c].plaintext = unpadded.value,
                                     ![c].trace = Append(@, "pkcs7Unpad")]
    /\ UNCHANGED held

DecryptReturn(c) ==
    /\ call[c].op = "decrypt" /\ call[c].pc = "Unpadded"
    /\ call' = [call EXCEPT ![c].pc = "Done",
                            ![c].result = Utf8Decode(call[c].plaintext)]
    /\ UNCHANGED held

----------------------------------------------------------------------------
(* The caller. It keeps the envelope of a successful encrypt and hands it, *)
(* or a text made from it, or a text of its own, to decrypt.               *)

\* What encryptVaultString computes from its arguments and the salt drawn.
Encrypted(plainText, password, salt) ==
    LET keys       == deriveKeys(password, salt)
        ciphertext == AesCtr(keys.encryptionKey, keys.iv, pkcs7Pad(Utf8Encode(plainText)))
    IN  [salt |-> salt, hmac |-> HmacSha256(keys.hmacKey, ciphertext),
         ciphertext |-> ciphertext]

\* An envelope whose tag is right for the password and salt, and whose
\* ciphertext deciphers to the given bytes instead of a padded plaintext.
Forged(bytes, password, salt) ==
    LET keys       == deriveKeys(password, salt)
        ciphertext == AesCtr(keys.encryptionKey, keys.iv, bytes)
    IN  formatVaultData(salt, HmacSha256(keys.hmacKey, ciphertext), ciphertext)

RECURSIVE JoinWith(_, _)
JoinWith(lines, sep) ==
    IF Len(lines) = 0 THEN <<>>
    ELSE IF Len(lines) = 1 THEN lines[1]
    ELSE lines[1] \o sep \o JoinWith(Tail(lines), sep)

\* encrypted.replace(/\n/g, "\r\n")
ToCRLF(s) == JoinWith(SplitLines(s), <<CR, LF>>)

\* The text with another first line.
WithHeader(envelope, header) ==
    header \o SubSeq(envelope, Len(expectedHeader) + 1, Len(envelope))

\* "$INVALID_HEADER;1.1;AES256"
HDR_INVALID ==
    <<36, 73, 78, 86, 65, 76, 73, 68, 95, 72, 69, 65, 68, 69, 82, 59, 49,
      46, 49, 59, 65, 69, 83, 50, 53, 54>>
\* "$ANSIBLE_VAULT;1.2;AES256"
HDR_VERSION ==
    VAULT_HEADER \o <<SEMICOLON, 49, 46, 50, SEMICOLON>> \o VAULT_CIPHER
\* "# HMAC verification failed"
HDR_HMAC_TEXT == <<35, 32>> \o NEEDLE_HMAC
\* "# string"
HDR_STRING_TEXT == <<35, 32>> \o NEEDLE_STRING
\* "# Invalid padding"
HDR_PADDING_TEXT == <<35, 32>> \o NEEDLE_PADDING
\* "not a vault"
TXT_NOT_A_VAULT ==
    <<110, 111, 116, 32, 97, 32, 118, 97, 117, 108, 116>>
\* "xyz123"
TXT_XYZ123 == <<120, 121, 122, 49, 50, 51>>
\* "salt", "hmac"
TXT_SALT == <<115, 97, 108, 116>>
TXT_HMAC == <<104, 109, 97, 99>>

\* First lines that are not the expected header once normalized.
WrongHeaders ==
    {HDR_INVALID, HDR_VERSION, HDR_HMAC_TEXT, HDR_STRING_TEXT, HDR_PADDING_TEXT}

\* First lines the parser normalizes to the expected header.
ToleratedHeaders == {expectedHeader \o <<32>>, expectedHeader \o <<CR>>}

\* Leading and trailing white space a caller may leave around an envelope.
Margins ==
    {<< <<32, 32>>, <<32, 32>> >>, << <<LF, 9>>, <<LF>> >>, << <<>>, <<CR, LF>> >>}

Origin(kind, header, defect, twoLines, digits) ==
    [kind |-> kind, header |-> header, defect |-> defect, twoLines |-> twoLines,
     digits |-> digits]

Digits(e) == <<2 * Len(e.salt), 2 * Len(e.hmac), 2 * Len(e.ciphertext)>>

Bump(buf, i) == [buf EXCEPT ![i] = (@ + 1) % 256]

\* The envelope held with one byte of one component changed.
Tampered(h) ==
    {[h EXCEPT !.salt = Bump(@, i)] : i \in {1, Len(h.salt)}}
        \cup {[h EXCEPT !.hmac = Bump(@, i)] : i \in {1, Len(h.hmac)}}
        \cup {[h EXCEPT !.ciphertext = Bump(@, i)] : i \in {1, Len(h.ciphertext)}}

\* Other envelopes encrypt returns for the password of the envelope held.
Reencrypted(h) ==
    {Encrypted(x, h.password, s) :
        x \in {h.plainText, <<98>>}, s \in Salts} \ {[salt |-> h.salt, hmac |-> h.hmac,
                                                     ciphertext |-> h.ciphertext]}

\* The texts the caller makes from the envelope it holds.
HeldTexts(h) ==
    {[text |-> h.envelope,
      origin |-> Origin("asIs", expectedHeader, "none", TRUE, Digits(h))]}
    \cup {[text |-> m[1] \o h.envelope \o m[2],
           origin |-> Origin("whitespace", expectedHeader, "none", TRUE, Digits(h))]
            : m \in Margins}
    \cup {[text |-> ToCRLF(h.envelope),
           origin |-> Origin("crlf", expectedHeader, "none", TRUE, Digits(h))]}
    \cup {[text |-> m[1] \o ToCRLF(h.envelope) \o m[2],
           origin |-> Origin("crlfWhitespace", expectedHeader, "none", TRUE, Digits(h))]
            : m \in Margins}
    \cup {[text |-> formatVaultData(t.salt, t.hmac, t.ciphertext),
           origin |-> Origin("tamper", expectedHeader, "none", TRUE, Digits(t))]
            : t \in Tampered(h)}
    \cup {[text |-> formatVaultData(e.salt, e.hmac, e.ciphertext),
           origin |-> Origin("reencrypt", expectedHeader, "none", TRUE, Digits(e))]
            : e \in Reencrypted(h)}
    \cup {[text |-> WithHeader(h.envelope, hd),
           origin |-> Origin("header", hd, "none", TRUE, Digits(h))]
            : hd \in WrongHeaders \cup ToleratedHeaders}

HexDigits(ch, n) == Repeat(ch, n)

\* Inner payloads saltHex LF hmacHex LF ciphertextHex with components of
\* chosen lengths: "a" 97, "b" 98, "c" 99.
InnerShapes ==
    {<<64, 64, 64>>, <<30, 64, 64>>, <<63, 64, 64>>, <<65, 64, 64>>, <<66, 64, 64>>,
     <<64, 30, 64>>, <<64, 63, 64>>, <<64, 65, 64>>,
     <<64, 64, 0>>, <<64, 64, 1>>, <<64, 64, 2>>, <<64, 64, 3>>}

ShapeDefect(d) ==
    IF d[1] \div 2 # SALT_LENGTH THEN "saltLength"
    ELSE IF d[2] \div 2 # HMAC_LENGTH THEN "hmacLength"
    ELSE IF d[3] \div 2 = 0 THEN "ciphertextEmpty"
    ELSE "none"

\* header LF hex(inner), as the tests build their vault strings.
VaultOf(header, inner) == header \o <<LF>> \o HexEncode(Utf8Encode(inner))

\* The texts the caller makes up.
CraftedTexts ==
    {[text |-> s, origin |-> Origin("crafted", s, "lines", FALSE, <<>>)]
        : s \in {TXT_NOT_A_VAULT, expectedHeader, <<32, 32>>, HDR_HMAC_TEXT,
                 expectedHeader \o <<LF, 32>>}}
    \cup UNION {
        {[text |-> hd \o <<LF>> \o TXT_XYZ123,
          origin |-> Origin("crafted", hd, "bodyHex", TRUE, <<>>)],
         [text |-> VaultOf(hd, TXT_SALT \o <<LF>> \o TXT_HMAC),
          origin |-> Origin("crafted", hd, "parts", TRUE, <<>>)],
         [text |-> VaultOf(hd, HexDigits(97, 64) \o <<LF>> \o HexDigits(98, 64) \o <<LF>>
                               \o HexDigits(99, 64) \o <<LF>> \o HexDigits(100, 2)),
          origin |-> Origin("crafted", hd, "parts", TRUE, <<>>)],
         [text |-> VaultOf(hd, TXT_XYZ123 \o <<LF>> \o HexDigits(97, 64) \o <<LF>>
                               \o HexDigits(98, 64)),
          origin |-> Origin("crafted", hd, "componentHex", TRUE, <<6, 64, 64>>)],
         [text |-> VaultOf(hd, HexDigits(97, 64) \o <<CR, LF>> \o HexDigits(98, 64)
                               \o <<CR, LF>> \o HexDigits(99, 64)),
          origin |-> Origin("crafted", hd, "componentHex", TRUE, <<65, 65, 64>>)]}
        \cup {[text |-> VaultOf(hd, HexDigits(97, d[1]) \o <<LF>> \o HexDigits(98, d[2])
                                    \o <<LF>> \o HexDigits(99, d[3])),
               origin |-> Origin("crafted", hd, ShapeDefect(d), TRUE, d)]
                : d \in InnerShapes}
        : hd \in {expectedHeader, HDR_INVALID, HDR_HMAC_TEXT}}

\* Bytes that are no PKCS#7-padded text: a whole block of padding, a pad
\* byte of 0, a pad byte of 17, padding bytes that differ, and ill-formed
\* UTF-8 before a right padding.
ForgedPayloads ==
    {Repeat(16, 16), Repeat(97, 15) \o <<0>>, Repeat(97, 15) \o <<17>>,
     Repeat(97, 13) \o <<3, 2, 3>>, <<255, 224, 128>> \o Repeat(13, 13)}

ForgedTexts ==
    {[text |-> Forged(b, p, s),
      origin |-> Origin("forged", expectedHeader, "none", TRUE,
                        <<2 * SALT_LENGTH, 2 * HMAC_LENGTH, 2 * Len(b)>>)]
        : b \in ForgedPayloads, p \in {<<112, 119>>}, s \in {CHOOSE s \in Salts : TRUE}}

Quiescent == \A c \in Calls : call[c].pc = "Idle"

\* The caller awaits each call before it makes the next, on the first slot.
FirstCall == 1

Encrypt ==
    /\ Quiescent
    /\ ~held.present
    /\ \E plainText \in {String(t) : t \in PlainTexts} \cup InvalidArgs,
          password \in {String(p) : p \in Passwords} \cup InvalidArgs :
          /\ plainText \in InvalidArgs => password \in {String(<<112, 119>>), String(<<>>)}
          /\ password \in InvalidArgs => plainText \in {String(<<97>>)} \cup InvalidArgs
          /\ EncryptCall(FirstCall, plainText, password)

DecryptHeld ==
    /\ Quiescent
    /\ held.present
    /\ \E t \in HeldTexts(held),
          password \in {String(p) : p \in Passwords \cup OtherPasswords} \cup InvalidArgs :
          /\ password \in InvalidArgs => t.origin.kind = "asIs"
          /\ DecryptCall(FirstCall, String(t.text), password, t.origin)

DecryptCrafted ==
    /\ Quiescent
    /\ ~held.present
    /\ \/ \E t \in CraftedTexts \cup ForgedTexts,
             password \in {String(<<112, 119>>), String(<<>>)} :
             /\ password = String(<<>>) => t.origin.header = expectedHeader
             /\ DecryptCall(FirstCall, String(t.text), password, t.origin)
       \/ \E text \in InvalidArgs, password \in {String(<<112, 119>>)} \cup InvalidArgs :
             DecryptCall(FirstCall, text, password,
                         Origin("invalid", <<>>, "none", FALSE, <<>>))

\* The caller keeps the envelope a successful encrypt resolved with.
Keep(c) ==
    /\ call[c].op = "encrypt" /\ call[c].pc = "Done"
    /\ held' = [present |-> TRUE, envelope |-> call[c].result,
                plainText |-> call[c].text.value, password |-> call[c].password.value,
                salt |-> call[c].salt, hmac |-> call[c].hmac,
                ciphertext |-> call[c].ciphertext]
    /\ call' = [call EXCEPT ![c] = IdleCall]

\* The caller is done with the outcome of a decrypt or of a failed encrypt.
Finish(c) ==
    /\ call[c].pc \in {"Done", "Failed"}
    /\ ~(call[c].op = "encrypt" /\ call[c].pc = "Done")
    /\ held' = NoEnvelope
    /\ call' = [call EXCEPT ![c] = IdleCall]

Step(c) ==
    \/ EncryptValidate(c)
    \/ EncryptSalt(c)
    \/ EncryptDeriveKeys(c)
    \/ EncryptPad(c)
    \/ EncryptCipher(c)
    \/ EncryptTag(c)
    \/ EncryptRuntimeError(c)
    \/ EncryptReturn(c)
    \/ DecryptValidate(c)
    \/ DecryptParse(c)
    \/ DecryptDeriveKeys(c)
    \/ DecryptVerify(c)
    \/ DecryptDecipher(c)
    \/ DecryptUnpad(c)
    \/ DecryptReturn(c)
    \/ Keep(c)
    \/ Finish(c)

Next ==
    \/ Encrypt
    \/ DecryptHeld
    \/ DecryptCrafted
    \/ \E c \in Calls : Step(c)

Spec == Init /\ [][Next]_vars

----------------------------------------------------------------------------
(* Calls in progress at the same time. Each await (of deriveKeys, and of   *)
(* the function itself) lets the steps of other calls in between. The      *)
(* caller keeps the latest envelope and decrypts it, under the password it *)
(* was made with and under another, while it encrypts the same text again. *)

\* "é" and fifteen "a": one block of UTF-8 exactly.
ConcurrentPlainText == <<233>> \o Repeat(97, blockSize - 2)

\* "pw"
ConcurrentPassword == <<112, 119>>

ConcurrentEncrypt(c) ==
    EncryptCall(c, String(ConcurrentPlainText), String(ConcurrentPassword))

\* "pW"
ConcurrentWrongPassword == <<112, 87>>

ConcurrentDecrypt(c) ==
    /\ held.present
    /\ \E password \in {held.password, ConcurrentWrongPassword} :
          DecryptCall(c, String(held.envelope), String(password),
                      Origin("asIs", expectedHeader, "none", TRUE, Digits(held)))

\* The caller is done with the outcome of the call and keeps what it held.
Release(c) ==
    /\ call[c].pc \in {"Done", "Failed"}
    /\ call' = [call EXCEPT ![c] = IdleCall]
    /\ UNCHANGED held

ConcurrentStep(c) ==
    \/ ConcurrentEncrypt(c)
    \/ ConcurrentDecrypt(c)
    \/ EncryptValidate(c)
    \/ EncryptSalt(c)
    \/ EncryptDeriveKeys(c)
    \/ EncryptPad(c)
    \/ EncryptCipher(c)
    \/ EncryptTag(c)
    \/ EncryptRuntimeError(c)
    \/ EncryptReturn(c)
    \/ DecryptValidate(c)
    \/ DecryptParse(c)
    \/ DecryptDeriveKeys(c)
    \/ DecryptVerify(c)
    \/ DecryptDecipher(c)
    \/ DecryptUnpad(c)
    \/ DecryptReturn(c)
    \/ Keep(c)
    \/ Release(c)

ConcurrentNext == \E c \in Calls : ConcurrentStep(c)

SpecConcurrent == Init /\ [][ConcurrentNext]_vars

\* encryptVaultString(plainText, password) run alone, for the salt that
\* randomBytes returns and a runtime that does not fail.
encryptVaultString(plainText, password, salt) ==
    IF NotNonEmptyString(plainText)
    THEN [ok |-> FALSE, value |-> <<>>, error |-> encryptCatch(MSG_PLAIN_TEXT_REQUIRED)]
    ELSE IF NotNonEmptyString(password)
    THEN [ok |-> FALSE, value |-> <<>>, error |-> encryptCatch(MSG_PASSWORD_REQUIRED)]
    ELSE LET e == Encrypted(plainText.value, password.value, salt)
         IN  [ok |-> TRUE, value |-> formatVaultData(e.salt, e.hmac, e.ciphertext),
              error |-> NoError]

\* decryptVaultString(encryptedText, password) run alone.
decryptVaultString(encryptedText, password) ==
    IF NotNonEmptyString(encryptedText)
    THEN [ok |-> FALSE, value |-> <<>>,
          error |-> decryptCatch(MSG_ENCRYPTED_TEXT_REQUIRED)]
    ELSE IF NotNonEmptyString(password)
    THEN [ok |-> FALSE, value |-> <<>>, error |-> decryptCatch(MSG_PASSWORD_REQUIRED)]
    ELSE
      LET parsed == parseVaultData(encryptedText.value)
      IN  IF ~parsed.ok
          THEN [ok |-> FALSE, value |-> <<>>, error |-> decryptCatch(parsed.error)]
          ELSE
            LET keys            == deriveKeys(password.value, parsed.value.salt)
                computedHmac    == HmacSha256(keys.hmacKey, parsed.value.ciphertext)
                paddedPlaintext == AesCtr(keys.encryptionKey, keys.iv,
                                          parsed.value.ciphertext)
                plaintext       == pkcs7Unpad(paddedPlaintext)
            IN  IF ~verifyHmac(parsed.value.hmac, computedHmac)
                THEN [ok |-> FALSE, value |-> <<>>,
                      error |-> decryptCatch(MSG_HMAC_FAILED)]
                ELSE IF ~plaintext.ok
                THEN [ok |-> FALSE, value |-> <<>>,
                      error |-> decryptCatch(plaintext.error)]
                ELSE [ok |-> TRUE, value |-> Utf8Decode(plaintext.value),
                      error |-> NoError]

----------------------------------------------------------------------------
(* Properties.                                                             *)

InTrace(c, name) == \E i \in DOMAIN call[c].trace : call[c].trace[i] = name

\* Every occurrence of later in the trace has an occurrence of earlier
\* before it.
PrecededBy(c, later, earlier) ==
    \A j \in DOMAIN call[c].trace :
        call[c].trace[j] = later => \E i \in 1..(j - 1) : call[c].trace[i] = earlier

StartsWith(s, prefix) ==
    Len(s) >= Len(prefix) /\ SubSeq(s, 1, Len(prefix)) = prefix

IsNonEmptyString(x) == x.type = "string" /\ Len(x.value) > 0

\* "$ANSIBLE_VAULT;1.1;AES256"
HeaderLine ==
    <<36, 65, 78, 83, 73, 66, 76, 69, 95, 86, 65, 85, 76, 84, 59, 49, 46, 49,
      59, 65, 69, 83, 50, 53, 54>>

\* new Error("Unable to decrypt content. Please check the password and format.")
GenericDecryptError == [message |-> MSG_UNABLE_TO_DECRYPT, cause |-> <<>>]

\* The decrypt has the tag comparison behind it, successfully.
PastTag(c) ==
    \/ call[c].pc \in {"TagVerified", "Decrypted", "Unpadded", "Done"}
    \/ InTrace(c, "createDecipheriv")

\* The decrypt has parseVaultData behind it, successfully.
PastParse(c) ==
    /\ InTrace(c, "parseVaultData")
    /\ call[c].pc = "Failed" => InTrace(c, "deriveKeys")

\* The decrypt is past its two argument checks.
PastValidation(c) ==
    call[c].op = "decrypt" /\ call[c].pc \notin {"Idle", "Start"}

\* decryptVaultString(E, P) for the envelope E the caller holds.
DecryptsHeld(c) ==
    /\ call[c].op = "decrypt"
    /\ held.present
    /\ call[c].text = String(held.envelope)

----------------------------------------------------------------------------
\* C1: round trip. A decrypt of the envelope encryptVaultString returned for
\* a non-empty plainText and password (whatever the salt drawn), under the
\* same password, never fails, and what it returns is exactly plainText.
C1_RoundTrip ==
    \A c \in Calls :
        (DecryptsHeld(c) /\ call[c].password = String(held.password)) =>
            /\ call[c].pc # "Failed"
            /\ call[c].pc = "Done" => call[c].result = held.plainText

\* C1: a round trip of a plainText of exactly two cipher blocks has returned
\* it, and so has one of a multi-byte text.
C1_Witness ==
    \E c \in Calls :
        /\ DecryptsHeld(c) /\ call[c].password = String(held.password)
        /\ call[c].pc = "Done"
        /\ call[c].result = held.plainText
        /\ \/ Len(call[c].plaintext) = 2 * blockSize
           \/ held.plainText = <<72, 233, 10, 19990, 32, 127757>>

\* C2: authenticate before decrypt. In a decrypt, the decipher and the unpad
\* are only ever called after verifyHmac, with the stored tag equal to the
\* HMAC of the extracted ciphertext; when the two differ the call has failed
\* and neither the decipher nor the unpad was called.
C2_AuthenticateBeforeDecrypt ==
    \A c \in Calls :
        call[c].op = "decrypt" =>
            /\ PrecededBy(c, "createDecipheriv", "verifyHmac")
            /\ PrecededBy(c, "pkcs7Unpad", "verifyHmac")
            /\ PrecededBy(c, "pkcs7Unpad", "createDecipheriv")
            /\ (InTrace(c, "createDecipheriv") \/ InTrace(c, "pkcs7Unpad")
                    \/ call[c].pc \in {"TagVerified", "Decrypted", "Unpadded", "Done"}) =>
                  /\ call[c].computedHmac = HmacSha256(call[c].hmacKey, call[c].ciphertext)
                  /\ call[c].hmac = call[c].computedHmac
            /\ (InTrace(c, "verifyHmac") /\ call[c].hmac # call[c].computedHmac) =>
                  /\ call[c].pc = "Failed"
                  /\ ~InTrace(c, "createDecipheriv")
                  /\ ~InTrace(c, "pkcs7Unpad")
                  /\ call[c].paddedPlaintext = <<>>
                  /\ call[c].plaintext = <<>>

\* C2: a decrypt compared a stored tag with a different computed one.
C2_Witness ==
    \E c \in Calls :
        /\ call[c].op = "decrypt"
        /\ InTrace(c, "verifyHmac")
        /\ Len(call[c].computedHmac) = HMAC_LENGTH
        /\ call[c].hmac # call[c].computedHmac
        /\ call[c].pc = "Failed"

\* C3: wrong password. A decrypt of an envelope encrypted under P1, given a
\* non-empty password P2 other than P1, never gets past the tag comparison
\* and never returns; when it fails the error is the generic one.
C3_WrongPassword ==
    \A c \in Calls :
        (/\ DecryptsHeld(c)
         /\ IsNonEmptyString(call[c].password)
         /\ call[c].password.value # held.password) =>
            /\ ~PastTag(c)
            /\ call[c].pc # "Done"
            /\ call[c].result = <<>>
            /\ call[c].pc = "Failed" => call[c].error = GenericDecryptError

\* C3: a decrypt under another password has failed at the tag comparison.
C3_Witness ==
    \E c \in Calls :
        /\ DecryptsHeld(c)
        /\ IsNonEmptyString(call[c].password)
        /\ call[c].password.value # held.password
        /\ call[c].pc = "Failed"
        /\ InTrace(c, "verifyHmac")
        /\ call[c].error = GenericDecryptError

\* The components parsed by the decrypt that differ from those of the
\* envelope held.
ChangedComponents(c) ==
    {k \in {"salt", "hmac", "ciphertext"} :
        \/ k = "salt" /\ call[c].salt # held.salt
        \/ k = "hmac" /\ call[c].hmac # held.hmac
        \/ k = "ciphertext" /\ call[c].ciphertext # held.ciphertext}

\* A decrypt, under the password of the envelope held, of a structurally
\* valid text.
DecryptsVariant(c) ==
    /\ call[c].op = "decrypt"
    /\ held.present
    /\ call[c].password = String(held.password)
    /\ PastParse(c)

\* C4 as stated: a structurally valid envelope whose parsed salt, tag or
\* ciphertext differs from E's in at least one byte never decrypts under
\* E's password, and fails with the generic error.
C4_TamperDetection ==
    \A c \in Calls :
        (DecryptsVariant(c) /\ ChangedComponents(c) # {}) =>
            /\ ~PastTag(c)
            /\ call[c].pc # "Done"
            /\ call[c].pc = "Failed" => call[c].error = GenericDecryptError

\* C4, amended: a structurally valid envelope that differs from E in
\* exactly one of the parsed salt, tag and ciphertext never decrypts under
\* E's password, and fails with the generic error.
C4_TamperDetectionOneComponent ==
    \A c \in Calls :
        (DecryptsVariant(c) /\ Cardinality(ChangedComponents(c)) = 1) =>
            /\ ~PastTag(c)
            /\ call[c].pc # "Done"
            /\ call[c].result = <<>>
            /\ call[c].pc = "Failed" => call[c].error = GenericDecryptError

\* C4: a decrypt of an envelope with one byte of its ciphertext changed has
\* failed at the tag comparison.
C4_Witness ==
    \E c \in Calls :
        /\ DecryptsVariant(c)
        /\ ChangedComponents(c) = {"ciphertext"}
        /\ call[c].pc = "Failed"
        /\ InTrace(c, "verifyHmac")
        /\ call[c].error = GenericDecryptError

\* The message of the argument check that rejects the call.
ValidationMessage(c) ==
    IF ~IsNonEmptyString(call[c].text)
    THEN IF call[c].op = "encrypt" THEN MSG_PLAIN_TEXT_REQUIRED
         ELSE MSG_ENCRYPTED_TEXT_REQUIRED
    ELSE MSG_PASSWORD_REQUIRED

\* C5: input validation. An encrypt or a decrypt whose text or password is
\* empty or no string, once past its argument checks, has failed with the
\* message naming the field and has called nothing: no randomBytes, no
\* deriveKeys, no HMAC, no cipher, no parseVaultData.
C5_InputValidation ==
    \A c \in Calls :
        (/\ call[c].op \in {"encrypt", "decrypt"}
         /\ call[c].pc # "Start"
         /\ ~IsNonEmptyString(call[c].text) \/ ~IsNonEmptyString(call[c].password)) =>
            /\ call[c].pc = "Failed"
            /\ call[c].error = [message |-> ValidationMessage(c), cause |-> <<>>]
            /\ call[c].trace = <<>>
            /\ call[c].salt = <<>> /\ call[c].hmacKey = <<>> /\ call[c].ciphertext = <<>>

\* C5: a decrypt given a number for a password has failed.
C5_Witness ==
    \E c \in Calls :
        /\ call[c].op = "decrypt"
        /\ IsNonEmptyString(call[c].text)
        /\ call[c].password.type = "number"
        /\ call[c].pc = "Failed"
        /\ call[c].error.message = MSG_PASSWORD_REQUIRED

\* The start of the message each structural rule throws.
RuleMessage(defect) ==
    CASE defect = "lines"           -> MSG_TOO_SHORT
      [] defect = "bodyHex"         -> MSG_BODY_NON_HEX
      [] defect = "parts"           -> MSG_PART_COUNT
      [] defect = "componentHex"    -> MSG_COMPONENT_NON_HEX
      [] defect = "saltLength"      -> MSG_SALT_PREFIX
      [] defect = "hmacLength"      -> MSG_HMAC_PREFIX
      [] defect = "ciphertextEmpty" -> MSG_CIPHERTEXT_EMPTY

Rules ==
    {"lines", "bodyHex", "parts", "componentHex", "saltLength", "hmacLength",
     "ciphertextEmpty"}

\* C6: format rejection. Given a non-empty password, a decrypt of a text
\* with fewer than two lines, a non-hex body, an inner payload not of three
\* parts, a non-hex component, a salt or a tag not of 32 bytes, or an empty
\* ciphertext fails with a message beginning "Invalid vault format"; under
\* the expected header the message is the one of the rule broken, and no
\* rule's message begins another's.
C6_FormatRejection ==
    /\ \A r1, r2 \in Rules :
          r1 # r2 => ~StartsWith(RuleMessage(r1), RuleMessage(r2))
    /\ \A c \in Calls :
          (/\ PastValidation(c)
           /\ IsNonEmptyString(call[c].password)
           /\ call[c].origin.defect \in Rules
           /\ call[c].pc # "Validated") =>
              /\ call[c].pc = "Failed"
              /\ StartsWith(call[c].error.message, NEEDLE_FORMAT)
              /\ (call[c].origin.header = HeaderLine \/ call[c].origin.defect = "lines") =>
                    StartsWith(call[c].error.message, RuleMessage(call[c].origin.defect))

\* C7: header strictness. Given a non-empty password, a decrypt of a text
\* of at least two lines whose first line, without carriage returns and
\* surrounding white space, is not the expected header fails with the
\* "Invalid vault format" error and not with the generic one.
C7_HeaderStrictness ==
    \A c \in Calls :
        (/\ PastValidation(c)
         /\ IsNonEmptyString(call[c].password)
         /\ call[c].origin.twoLines
         /\ Trim(StripCR(call[c].origin.header)) # HeaderLine
         /\ call[c].pc # "Validated") =>
            /\ call[c].pc = "Failed"
            /\ StartsWith(call[c].error.message, NEEDLE_FORMAT)
            /\ call[c].error.message # MSG_UNABLE_TO_DECRYPT

\* C8: inner-payload grammar. A decrypt gets past parseVaultData only if the
\* salt and the tag have exactly 64 hex digits each and the ciphertext has
\* at least 2.
C8_InnerPayloadGrammar ==
    \A c \in Calls :
        (/\ call[c].op = "decrypt"
         /\ PastParse(c)
         /\ call[c].origin.digits # <<>>) =>
            /\ call[c].origin.digits[1] = 2 * SALT_LENGTH
            /\ call[c].origin.digits[2] = 2 * HMAC_LENGTH
            /\ call[c].origin.digits[3] >= 2

\* C9: white space and line endings. A decrypt, under the original
\* password, of the envelope with white space added around it, with every
\* LF replaced by CR LF, or both, never fails and returns the plaintext.
C9_WhitespaceTolerance ==
    \A c \in Calls :
        (/\ call[c].op = "decrypt"
         /\ held.present
         /\ call[c].origin.kind \in {"whitespace", "crlf", "crlfWhitespace"}
         /\ call[c].password = String(held.password)) =>
            /\ call[c].pc # "Failed"
            /\ call[c].pc = "Done" => call[c].result = held.plainText

\* C9: a decrypt of the envelope with CR LF line endings and white space
\* around it has returned the plaintext.
C9_Witness ==
    \E c \in Calls :
        /\ call[c].op = "decrypt"
        /\ held.present
        /\ call[c].origin.kind = "crlfWhitespace"
        /\ call[c].text.value # held.envelope
        /\ \E i \in DOMAIN call[c].text.value : call[c].text.value[i] = CR
        /\ call[c].password = String(held.password)
        /\ call[c].pc = "Done"
        /\ call[c].result = held.plainText

IsLowerHexDigit(ch) == ch \in 48..57 \/ ch \in 97..102

\* C10: envelope shape. The text a successful encrypt returns has the
\* expected header for first line and at least one line after it; each of
\* those is non-empty, of lowercase hex digits only and at most 80
\* characters long, and each but the last is exactly 80 characters long.
C10_EnvelopeShape ==
    \A c \in Calls :
        (call[c].op = "encrypt" /\ call[c].pc = "Done") =>
            LET lines == SplitLines(call[c].result)
            IN  /\ Len(lines) >= 2
                /\ lines[1] = HeaderLine
                /\ \A i \in 2..Len(lines) :
                      /\ Len(lines[i]) \in 1..80
                      /\ \A k \in DOMAIN lines[i] : IsLowerHexDigit(lines[i][k])
                      /\ i < Len(lines) => Len(lines[i]) = 80

\* C10: an encrypt has returned an envelope whose body has full lines and a
\* shorter last one.
C10_Witness ==
    \E c \in Calls :
        /\ call[c].op = "encrypt" /\ call[c].pc = "Done"
        /\ LET lines == SplitLines(call[c].result)
           IN  /\ Len(lines) >= 4
               /\ Len(lines[Len(lines)]) < 80

----------------------------------------------------------------------------
\* The decrypt failed at the tag comparison.
FailedAtTag(c) ==
    /\ call[c].op = "decrypt" /\ call[c].pc = "Failed"
    /\ InTrace(c, "verifyHmac") /\ ~InTrace(c, "createDecipheriv")

\* The decrypt failed at the unpad, after a successful tag comparison.
FailedAtUnpad(c) ==
    /\ call[c].op = "decrypt" /\ call[c].pc = "Failed"
    /\ InTrace(c, "verifyHmac") /\ InTrace(c, "pkcs7Unpad")

\* C12: indistinguishable failures. The error a decrypt delivers when the
\* unpad fails after a successful tag comparison is the error it delivers
\* on a tag mismatch: the same message and no cause, whichever of the four
\* padding rules was broken.
C12_IndistinguishableFailures ==
    /\ \A c \in Calls :
          (FailedAtTag(c) \/ FailedAtUnpad(c)) =>
              call[c].error = [message |-> MSG_UNABLE_TO_DECRYPT, cause |-> <<>>]
    /\ \A m \in {MSG_PAD_EMPTY, MSG_PAD_RANGE, MSG_PAD_SHORT, MSG_PAD_BYTES} :
          decryptCatch(m) = decryptCatch(MSG_HMAC_FAILED)

\* C12: a decrypt whose tag compared equal has failed at the unpad.
C12_Witness ==
    \E c \in Calls :
        /\ FailedAtUnpad(c)
        /\ call[c].hmac = call[c].computedHmac
        /\ ~pkcs7Unpad(call[c].paddedPlaintext).ok

----------------------------------------------------------------------------
\* The stages of a decrypt, in order.
DecryptStages ==
    <<"Start", "Validated", "Parsed", "KeysDerived", "TagVerified", "Decrypted",
      "Unpadded", "Done">>

\* The moves a decrypt may make: to the next stage, or from any stage but
\* the last to Failed.
DecryptMoves ==
    {<<DecryptStages[i], DecryptStages[i + 1]>> : i \in 1..(Len(DecryptStages) - 1)}
        \cup {<<DecryptStages[i], "Failed">> : i \in 1..(Len(DecryptStages) - 1)}

IsValidationError(e) ==
    e.message \in {MSG_ENCRYPTED_TEXT_REQUIRED, MSG_PASSWORD_REQUIRED} /\ e.cause = <<>>

IsFormatError(e) == StartsWith(e.message, NEEDLE_FORMAT) /\ e.cause = <<>>

IsAuthenticationError(e) == e = [message |-> MSG_UNABLE_TO_DECRYPT, cause |-> <<>>]

\* The kinds of error e is.
ErrorKinds(e) ==
    {k \in {"ValidationError", "FormatError", "AuthenticationError"} :
        \/ k = "ValidationError" /\ IsValidationError(e)
        \/ k = "FormatError" /\ IsFormatError(e)
        \/ k = "AuthenticationError" /\ IsAuthenticationError(e)}

\* One step of the decrypt in slot c, as the stage order allows it.
DecryptStepInOrder(c) ==
    /\ (call[c].op = "none" /\ call'[c].op = "decrypt") => call'[c].pc = "Start"
    /\ (call[c].op = "decrypt" /\ call'[c] # call[c]) =>
          IF call[c].pc \in {"Done", "Failed"}
          THEN call'[c].op # "decrypt" \/ call'[c].pc = "Start"
          ELSE /\ call'[c].op = "decrypt"
               /\ <<call[c].pc, call'[c].pc>> \in DecryptMoves
               /\ call'[c].pc = "Failed" => Cardinality(ErrorKinds(call'[c].error)) = 1
               /\ call'[c].pc # "Failed" => call'[c].error = NoError

\* C13: decrypt stage order. Every step of a decrypt moves it from its
\* stage to the next one of Start, Validated, Parsed, KeysDerived,
\* TagVerified, Decrypted, Unpadded, Done, or to Failed; Done and Failed are
\* left only when the call is over; and the error of a failure is exactly
\* one of a validation, a format or the generic authentication error.
C13_DecryptStageOrder == [][\A c \in Calls : DecryptStepInOrder(c)]_vars

\* C13: a decrypt has gone through every stage to Done.
C13_Witness ==
    \E c \in Calls :
        /\ call[c].op = "decrypt" /\ call[c].pc = "Done"
        /\ call[c].trace = <<"parseVaultData", "deriveKeys", "createHmac", "verifyHmac",
                             "createDecipheriv", "pkcs7Unpad">>

----------------------------------------------------------------------------
\* The encrypt failed with the message of an argument check, for an
\* argument that is empty or no string.
EncryptValidationFailure(c) ==
    /\ call[c].error.cause = <<>>
    /\ \/ /\ ~IsNonEmptyString(call[c].text)
          /\ call[c].error.message = MSG_PLAIN_TEXT_REQUIRED
       \/ /\ ~IsNonEmptyString(call[c].password)
          /\ call[c].error.message = MSG_PASSWORD_REQUIRED

\* C14: encrypt error contract. Every failure of an encrypt is either a
\* validation error, raised only for a plainText or password that is empty
\* or no string and naming that field, or carries the one generic message;
\* a failure of a later step never arrives with a message of its own; and a
\* failed encrypt has returned nothing.
C14_EncryptErrorContract ==
    \A c \in Calls :
        (call[c].op = "encrypt" /\ call[c].pc = "Failed") =>
            /\ \/ EncryptValidationFailure(c)
               \/ call[c].error.message = MSG_UNABLE_TO_ENCRYPT
            /\ (IsNonEmptyString(call[c].text) /\ IsNonEmptyString(call[c].password)) =>
                  call[c].error.message = MSG_UNABLE_TO_ENCRYPT
            /\ call[c].result = <<>>

----------------------------------------------------------------------------
(* The helper functions on their own. Under SpecHelpers the variable call  *)
(* is the frame of one call of one helper, with the helper's arguments and *)
(* locals for fields, and held stays empty.                                *)

\* The padding of the buffers handed to pkcs7Unpad is at most MaxTail bytes
\* of free choice.
MaxTail == 3

\* Bytes at the end of a buffer: no padding byte (0, 17) and padding bytes.
TailBytes == {0, 1, 2, 3, 17}

Tails == UNION {[1..n -> TailBytes] : n \in 1..MaxTail}

\* A block of sixteen bytes 16 with the byte at position k replaced.
BlockWith(k, byte) == [i \in 1..blockSize |-> IF i = k THEN byte ELSE blockSize]

\* The buffers handed to pkcs7Unpad: empty, with every tail, after no byte,
\* one byte or thirteen, and whole blocks of padding, intact or with one
\* wrong byte at the start, in the middle or near the end.
UnpadBuffers ==
    {<<>>, Repeat(blockSize, blockSize), Repeat(97, blockSize) \o Repeat(blockSize, blockSize)}
        \cup {prefix \o t : prefix \in {<<>>, <<97>>, Repeat(97, 13)}, t \in Tails}
        \cup {BlockWith(k, 97) : k \in {1, 8, 15}}
        \cup {BlockWith(k, 15) : k \in {1, 15}}

NoOutcome == [ok |-> FALSE, value |-> <<>>, error |-> <<>>]

UnpadFrame(buf) ==
    [fn |-> "pkcs7Unpad", pc |-> "Start", buf |-> buf, padLen |-> 0, i |-> 0,
     examined |-> 0, outcome |-> NoOutcome]

\* pkcs7Unpad up to its loop: the three tests on the length and on the last
\* byte, and the loop variable set to buf.length - padLen.
UnpadEnter ==
    /\ call.fn = "pkcs7Unpad" /\ call.pc = "Start"
    /\ IF Len(call.buf) = 0
       THEN call' = [call EXCEPT !.pc = "Failed", !.outcome = Thrown(MSG_PAD_EMPTY)]
       ELSE LET padLen == call.buf[Len(call.buf)]
            IN  IF padLen < 1 \/ padLen > 16
                THEN call' = [call EXCEPT !.pc = "Failed", !.padLen = padLen,
                                          !.outcome = Thrown(MSG_PAD_RANGE)]
                ELSE IF Len(call.buf) < padLen
                THEN call' = [call EXCEPT !.pc = "Failed", !.padLen = padLen,
                                          !.outcome = Thrown(MSG_PAD_SHORT)]
                ELSE call' = [call EXCEPT !.pc = "Loop", !.padLen = padLen,
                                          !.i = Len(call.buf) - padLen]
    /\ UNCHANGED held

\* One turn of the loop: buf[i] is compared with padLen, and the function
\* throws at once when they differ.
UnpadLoop ==
    /\ call.fn = "pkcs7Unpad" /\ call.pc = "Loop"
    /\ call.i < Len(call.buf)
    /\ IF call.buf[call.i + 1] # call.padLen
       THEN call' = [call EXCEPT !.pc = "Failed", !.examined = @ + 1,
                                 !.outcome = Thrown(MSG_PAD_BYTES)]
       ELSE call' = [call EXCEPT !.i = @ + 1, !.examined = @ + 1]
    /\ UNCHANGED held

\* return buf.subarray(0, buf.length - padLen)
UnpadReturn ==
    /\ call.fn = "pkcs7Unpad" /\ call.pc = "Loop"
    /\ call.i = Len(call.buf)
    /\ call' = [call EXCEPT !.pc = "Done",
                            !.outcome = Returned(SubSeq(call.buf, 1,
                                                        Len(call.buf) - call.padLen))]
    /\ UNCHANGED held

\* The buffers handed to pkcs7Pad: of every length from none to one byte
\* more than MaxBlocks blocks, and buffers that end like a padding.
PadBuffers ==
    {Repeat(97, n) : n \in 0..(MaxBlocks * blockSize + 1)}
        \cup {<<1>>, <<2, 2>>, <<97, 16>>, Repeat(0, 5), Repeat(blockSize, blockSize),
              Repeat(97, 13) \o <<3, 3, 3>>}

PadFrame(data) ==
    [fn |-> "pkcs7Pad", pc |-> "Start", data |-> data, paddedPlaintext |-> <<>>,
     ciphertext |-> <<>>, outcome |-> NoOutcome]

\* const paddedPlaintext = pkcs7Pad(...)
PadApply ==
    /\ call.fn = "pkcs7Pad" /\ call.pc = "Start"
    /\ call' = [call EXCEPT !.pc = "Padded", !.paddedPlaintext = pkcs7Pad(call.data)]
    /\ UNCHANGED held

\* The cipher applied to the padded plaintext, under the keys of "pw".
PadCipher ==
    /\ call.fn = "pkcs7Pad" /\ call.pc = "Padded"
    /\ LET keys == deriveKeys(<<112, 119>>, CHOOSE salt \in Salts : TRUE)
       IN  call' = [call EXCEPT !.pc = "Encrypted",
                                !.ciphertext = AesCtr(keys.encryptionKey, keys.iv,
                                                      call.paddedPlaintext)]
    /\ UNCHANGED held

\* pkcs7Unpad applied to what pkcs7Pad returned.
PadUnpad ==
    /\ call.fn = "pkcs7Pad" /\ call.pc = "Encrypted"
    /\ call' = [call EXCEPT !.pc = "Done", !.outcome = pkcs7Unpad(call.paddedPlaintext)]
    /\ UNCHANGED held

\* The passwords handed to deriveKeys: "", "pw", "pé" and forty "a".
DerivePasswords == {<<>>, <<112, 119>>, <<112, 233>>, Repeat(97, 40)}

\* The salts handed to deriveKeys: those randomBytes may return, and zeroes.
DeriveSalts == Salts \cup {Repeat(0, SALT_LENGTH)}

NoKeys == [encryptionKey |-> <<>>, hmacKey |-> <<>>, iv |-> <<>>]

DeriveFrame(password, salt) ==
    [fn |-> "deriveKeys", pc |-> "Start", password |-> password, salt |-> salt,
     keys1 |-> NoKeys, keys2 |-> NoKeys]

\* const keys1 = await deriveKeys(password, salt)
DeriveOnce ==
    /\ call.fn = "deriveKeys" /\ call.pc = "Start"
    /\ call' = [call EXCEPT !.pc = "Derived",
                            !.keys1 = deriveKeys(call.password, call.salt)]
    /\ UNCHANGED held

\* const keys2 = await deriveKeys(password, salt)
DeriveAgain ==
    /\ call.fn = "deriveKeys" /\ call.pc = "Derived"
    /\ call' = [call EXCEPT !.pc = "Done",
                            !.keys2 = deriveKeys(call.password, call.salt)]
    /\ UNCHANGED held

\* A tag of HMAC_LENGTH bytes.
SomeTag == [i \in 1..HMAC_LENGTH |-> (37 * i + 11) % 256]

\* The pairs of buffers handed to verifyHmac: equal; differing in the
\* first, a middle or the last byte, or in every byte; of different
\* lengths; both empty.
VerifyPairs ==
    {<<SomeTag, SomeTag>>, <<<<>>, <<>>>>,
     <<SomeTag, [i \in 1..HMAC_LENGTH |-> (SomeTag[i] + 1) % 256]>>,
     <<SomeTag, SubSeq(SomeTag, 1, HMAC_LENGTH - 1)>>,
     <<SomeTag, SomeTag \o <<0>>>>, <<SomeTag, <<>>>>}
        \cup {<<SomeTag, Bump(SomeTag, k)>> : k \in {1, HMAC_LENGTH \div 2, HMAC_LENGTH}}

VerifyFrame(expectedHmac, actualHmac) ==
    [fn |-> "verifyHmac", pc |-> "Start", expectedHmac |-> expectedHmac,
     actualHmac |-> actualHmac, i |-> 0, diff |-> FALSE, examined |-> 0,
     result |-> FALSE]

\* if (expectedHmac.length !== actualHmac.length) return false
VerifyEnter ==
    /\ call.fn = "verifyHmac" /\ call.pc = "Start"
    /\ IF Len(call.expectedHmac) # Len(call.actualHmac)
       THEN call' = [call EXCEPT !.pc = "Done", !.result = FALSE]
       ELSE call' = [call EXCEPT !.pc = "Compare"]
    /\ UNCHANGED held

\* A comparison that returns at the first byte that differs.
VerifyCompareEarlyExit ==
    /\ call.fn = "verifyHmac" /\ call.pc = "Compare"
    /\ call.i < Len(call.expectedHmac)
    /\ IF call.expectedHmac[call.i + 1] # call.actualHmac[call.i + 1]
       THEN call' = [call EXCEPT !.pc = "Done", !.examined = @ + 1, !.result = FALSE]
       ELSE call' = [call EXCEPT !.i = @ + 1, !.examined = @ + 1]
    /\ UNCHANGED held

\* timingSafeEqual(expectedHmac, actualHmac), byte by byte: node:crypto
\* compares every pair of bytes and accumulates the differences, whatever
\* it has seen so far.
VerifyCompare ==
    /\ call.fn = "verifyHmac" /\ call.pc = "Compare"
    /\ call.i < Len(call.expectedHmac)
    /\ call' = [call EXCEPT !.i = @ + 1, !.examined = @ + 1,
                            !.diff = @ \/ (call.expectedHmac[call.i + 1]
                                              # call.actualHmac[call.i + 1])]
    /\ UNCHANGED held

\* return timingSafeEqual(...)
VerifyReturn ==
    /\ call.fn = "verifyHmac" /\ call.pc = "Compare"
    /\ call.i = Len(call.expectedHmac)
    /\ call' = [call EXCEPT !.pc = "Done", !.result = ~call.diff]
    /\ UNCHANGED held

\* parseVaultData statement by statement. The frame keeps the locals, the
\* checks run so far, and how the text was made.

\* The checks of parseVaultData in the order of its statements.
CheckOrder ==
    <<"lines", "header", "bodyHex", "parts", "componentHex", "saltLength",
      "hmacLength", "ciphertextLength">>

\* Components of an inner payload: a salt of 32 bytes, of 31, of no hex
\* digits, and of 64 characters one of which is no hex digit.
SaltHexes ==
    {HexDigits(97, 64), HexDigits(97, 62), TXT_XYZ123,
     HexDigits(97, 63) \o <<103>>}

\* A tag of 32 bytes, of 33, and of no hex digits.
HmacHexes == {HexDigits(98, 64), HexDigits(98, 66), TXT_XYZ123}

\* A ciphertext of 32 bytes, of one byte, of none.
CiphertextHexes == {HexDigits(99, 64), HexDigits(99, 2), <<>>}

\* How a text handed to parseVaultData is made: the header line, the three
\* components, the number of parts of the inner payload (2: no ciphertext
\* part, 4: a part more), and characters that are no hex digits appended to
\* the body.
ParseMakes ==
    [header : {expectedHeader, HDR_INVALID},
     saltHex : SaltHexes, hmacHex : HmacHexes, ciphertextHex : CiphertextHexes,
     parts : {2, 3, 4}, noise : {<<>>, <<122, 122>>}]

InnerOf(make) ==
    make.saltHex \o <<LF>> \o make.hmacHex
        \o (IF make.parts >= 3 THEN <<LF>> \o make.ciphertextHex ELSE <<>>)
        \o (IF make.parts = 4 THEN <<LF>> \o HexDigits(100, 2) ELSE <<>>)

TextOf(make) == VaultOf(make.header, InnerOf(make)) \o make.noise

\* The checks the text made so breaks.
DefectsOf(make) ==
    (IF make.header # expectedHeader THEN {"header"} ELSE {})
        \cup (IF make.noise # <<>> THEN {"bodyHex"} ELSE {})
        \cup (IF make.parts # 3 THEN {"parts"} ELSE {})
        \cup (IF \/ ~IsHexStar(make.saltHex) \/ ~IsHexStar(make.hmacHex)
                 \/ (make.parts >= 3 /\ ~IsHexStar(make.ciphertextHex))
              THEN {"componentHex"} ELSE {})
        \cup (IF Len(make.saltHex) # 2 * SALT_LENGTH THEN {"saltLength"} ELSE {})
        \cup (IF Len(make.hmacHex) # 2 * HMAC_LENGTH THEN {"hmacLength"} ELSE {})
        \cup (IF make.parts < 3 \/ make.ciphertextHex = <<>>
              THEN {"ciphertextLength"} ELSE {})

\* Texts of fewer than two lines: "", the header alone, "not a vault".
ShortTexts == {<<>>, expectedHeader, TXT_NOT_A_VAULT}

\* The ways the digits of a body are laid out in lines: in one line, in
\* lines of 80 as formatVaultData writes them, in lines of 7 ending in CR
\* LF, in lines of 80 with a blank line after each, and in groups of 5 with
\* a space between.
LayoutKinds == {"wide", "wrapped", "crlf", "blank", "spaced"}

\* s cut into pieces of w characters, the last one shorter.
Chunks(s, w) ==
    [k \in 1..((Len(s) + w - 1) \div w) |->
        SubSeq(s, (k - 1) * w + 1, IF k * w < Len(s) THEN k * w ELSE Len(s))]

Laid(header, body, kind) ==
    header \o <<LF>> \o
        (CASE kind = "wide"    -> body
           [] kind = "wrapped" -> JoinWith(Chunks(body, lineLength), <<LF>>)
           [] kind = "crlf"    -> JoinWith(Chunks(body, 7), <<CR, LF>>)
           [] kind = "blank"   -> JoinWith(Chunks(body, lineLength), <<LF, LF>>)
           [] kind = "spaced"  -> JoinWith(Chunks(body, 5), <<32>>))

\* The texts laid out in every way: an envelope that breaks no check, one
\* with a salt of 31 bytes, and one with characters that are no hex digits
\* at the end of its body.
LaidMakes ==
    {make \in ParseMakes :
        /\ make.header = expectedHeader /\ make.parts = 3
        /\ make.hmacHex = HexDigits(98, 64) /\ make.ciphertextHex = HexDigits(99, 64)
        /\ \/ make.saltHex = HexDigits(97, 64)
           \/ make.saltHex = HexDigits(97, 62) /\ make.noise = <<>>}

LaidTexts ==
    {[text |-> Laid(make.header, HexEncode(Utf8Encode(InnerOf(make))) \o make.noise,
                    kind),
      defects |-> DefectsOf(make)] : make \in LaidMakes, kind \in LayoutKinds}

ParseFrame(encryptedText, defects) ==
    [fn |-> "parseVaultData", pc |-> "Start", encryptedText |-> encryptedText,
     defects |-> defects,
     lines |-> <<>>, hexData |-> <<>>, parts |-> <<>>,
     salt |-> <<>>, hmac |-> <<>>, ciphertext |-> <<>>,
     checks |-> <<>>, outcome |-> NoOutcome]

ParseFrames ==
    {ParseFrame(TextOf(make), DefectsOf(make)) : make \in ParseMakes}
        \cup {ParseFrame(s, {"lines"}) : s \in ShortTexts}
        \cup {ParseFrame(t.text, t.defects) : t \in LaidTexts}

\* The frame after a check of parseVaultData: it has thrown message when
\* failed holds, and goes on to next with the locals of frame otherwise.
ParseStep(check, failed, message, next, frame) ==
    IF failed
    THEN [call EXCEPT !.pc = "Failed", !.checks = Append(@, check),
                      !.outcome = Thrown(message)]
    ELSE [frame EXCEPT !.pc = next, !.checks = Append(@, check)]

\* const lines = encryptedText.trim().split("\n"); if (lines.length < 2)
ParseLines ==
    /\ call.fn = "parseVaultData" /\ call.pc = "Start"
    /\ LET lines == SplitLines(Trim(call.encryptedText))
       IN  call' = ParseStep("lines", Len(lines) < 2, MSG_TOO_SHORT, "Header",
                             [call EXCEPT !.lines = lines])
    /\ UNCHANGED held

\* if (normalizedHeader !== expectedHeader)
ParseHeader ==
    /\ call.fn = "parseVaultData" /\ call.pc = "Header"
    /\ LET header           == call.lines[1]
           normalizedHeader == Trim(StripCR(header))
       IN  call' = ParseStep("header", normalizedHeader # expectedHeader,
                             MSG_EXPECTED_PREFIX \o expectedHeader \o MSG_EXPECTED_GOT
                                 \o header \o <<34>>,
                             "Body", call)
    /\ UNCHANGED held

\* const hexData = lines.slice(1).join("").replace(/\s+/g, ""); the test of
\* /^[0-9a-fA-F]+$/
ParseBody ==
    /\ call.fn = "parseVaultData" /\ call.pc = "Body"
    /\ LET hexData == StripWhiteSpace(JoinAfterFirst(Trim(call.encryptedText)))
       IN  call' = ParseStep("bodyHex", ~IsHexPlus(hexData), MSG_BODY_NON_HEX,
                             "Parts", [call EXCEPT !.hexData = hexData])
    /\ UNCHANGED held

\* const parts = innerPayload.split("\n"); if (parts.length !== 3)
ParseParts ==
    /\ call.fn = "parseVaultData" /\ call.pc = "Parts"
    /\ LET parts == SplitLines(Utf8Decode(HexDecode(call.hexData)))
       IN  call' = ParseStep("parts", Len(parts) # 3, MSG_PART_COUNT, "Components",
                             [call EXCEPT !.parts = parts])
    /\ UNCHANGED held

\* The test of /^[0-9a-fA-F]*$/ on the three parts, and the three buffers.
ParseComponents ==
    /\ call.fn = "parseVaultData" /\ call.pc = "Components"
    /\ call' = ParseStep("componentHex",
                         \E i \in 1..3 : ~IsHexStar(call.parts[i]),
                         MSG_COMPONENT_NON_HEX, "Salt",
                         [call EXCEPT !.salt = HexDecode(call.parts[1]),
                                      !.hmac = HexDecode(call.parts[2]),
                                      !.ciphertext = HexDecode(call.parts[3])])
    /\ UNCHANGED held

\* ParseSaltLength testing the length of the tag before that of the salt.
ParseSaltLengthTagFirst ==
    /\ call.fn = "parseVaultData" /\ call.pc = "Salt"
    /\ call' = IF Len(call.hmac) # HMAC_LENGTH
               THEN ParseStep("hmacLength", TRUE,
                              MSG_HMAC_PREFIX \o Decimal(HMAC_LENGTH) \o MSG_BYTES_GOT
                                  \o Decimal(Len(call.hmac)),
                              "Hmac", call)
               ELSE ParseStep("saltLength", Len(call.salt) # SALT_LENGTH,
                              MSG_SALT_PREFIX \o Decimal(SALT_LENGTH) \o MSG_BYTES_GOT
                                  \o Decimal(Len(call.salt)),
                              "Hmac", call)
    /\ UNCHANGED held

\* if (salt.length !== SALT_LENGTH)
ParseSaltLength ==
    /\ call.fn = "parseVaultData" /\ call.pc = "Salt"
    /\ call' = ParseStep("saltLength", Len(call.salt) # SALT_LENGTH,
                         MSG_SALT_PREFIX \o Decimal(SALT_LENGTH) \o MSG_BYTES_GOT
                             \o Decimal(Len(call.salt)),
                         "Hmac", call)
    /\ UNCHANGED held

\* if (hmac.length !== HMAC_LENGTH)
ParseHmacLength ==
    /\ call.fn = "parseVaultData" /\ call.pc = "Hmac"
    /\ call' = ParseStep("hmacLength", Len(call.hmac) # HMAC_LENGTH,
                         MSG_HMAC_PREFIX \o Decimal(HMAC_LENGTH) \o MSG_BYTES_GOT
                             \o Decimal(Len(call.hmac)),
                         "Ciphertext", call)
    /\ UNCHANGED held

\* if (ciphertext.length === 0), and the return of the three buffers.
ParseCiphertextLength ==
    /\ call.fn = "parseVaultData" /\ call.pc = "Ciphertext"
    /\ call' = ParseStep("ciphertextLength", Len(call.ciphertext) = 0,
                         MSG_CIPHERTEXT_EMPTY, "Done",
                         [call EXCEPT !.outcome =
                              Returned([salt |-> call.salt, hmac |-> call.hmac,
                                        ciphertext |-> call.ciphertext])])
    /\ UNCHANGED held

HelperFrames ==
    {UnpadFrame(buf) : buf \in UnpadBuffers}
        \cup {PadFrame(data) : data \in PadBuffers}
        \cup {DeriveFrame(password, salt) : password \in DerivePasswords,
                                            salt \in DeriveSalts}
        \cup {VerifyFrame(pair[1], pair[2]) : pair \in VerifyPairs}
        \cup ParseFrames

HelpersInit ==
    /\ call \in HelperFrames
    /\ held = NoEnvelope

HelpersNext ==
    \/ UnpadEnter
    \/ UnpadLoop
    \/ UnpadReturn
    \/ PadApply
    \/ PadCipher
    \/ PadUnpad
    \/ DeriveOnce
    \/ DeriveAgain
    \/ VerifyEnter
    \/ VerifyCompare
    \/ VerifyReturn
    \/ ParseLines
    \/ ParseHeader
    \/ ParseBody
    \/ ParseParts
    \/ ParseComponents
    \/ ParseSaltLength
    \/ ParseHmacLength
    \/ ParseCiphertextLength

SpecHelpers == HelpersInit /\ [][HelpersNext]_vars

----------------------------------------------------------------------------
\* The buffer breaks one of the four rules of the padding.
BreaksPadding(buf) ==
    \/ Len(buf) = 0
    \/ buf[Len(buf)] \notin 1..16
    \/ Len(buf) < buf[Len(buf)]
    \/ \E k \in 0..(buf[Len(buf)] - 1) : buf[Len(buf) - k] # buf[Len(buf)]

\* C16: unpad contract. pkcs7Unpad fails if and only if the buffer is
\* empty, its last byte n is not in 1..16, it is shorter than n, or one of
\* its last n bytes is not n; otherwise it returns the first len - n bytes.
\* The function run statement by statement and the operator the calls use
\* both do so.
C16_UnpadContract ==
    (call.fn = "pkcs7Unpad" /\ call.pc \in {"Done", "Failed"}) =>
        /\ call.pc = "Failed" <=> BreaksPadding(call.buf)
        /\ call.outcome.ok <=> call.pc = "Done"
        /\ call.pc = "Done" =>
              call.outcome.value =
                  SubSeq(call.buf, 1, Len(call.buf) - call.buf[Len(call.buf)])
        /\ pkcs7Unpad(call.buf) = call.outcome

\* C16: pkcs7Unpad has returned the bytes before a padding of three bytes.
C16_Witness ==
    /\ call.fn = "pkcs7Unpad" /\ call.pc = "Done"
    /\ call.buf = Repeat(97, 13) \o <<3, 3, 3>>
    /\ call.outcome.value = Repeat(97, 13)

\* C17: unpad inspects every padding byte. Once the last byte n is in
\* 1..16 and the buffer has n bytes or more, pkcs7Unpad has examined all n
\* last bytes when it returns or throws.
C17_UnpadNoEarlyExit ==
    (/\ call.fn = "pkcs7Unpad"
     /\ call.pc \in {"Done", "Failed"}
     /\ Len(call.buf) > 0
     /\ call.padLen \in 1..16
     /\ Len(call.buf) >= call.padLen) =>
        call.examined = call.padLen

\* C18: pad contract. For an input of length L, pkcs7Pad appends exactly
\* n = 16 - (L mod 16) bytes of value n, 1 <= n <= 16 and a whole block when
\* L is a multiple of 16; the padded plaintext, and the ciphertext made of
\* it, have a length that is a multiple of 16 and at least 16; and
\* pkcs7Unpad gives the input back.
C18_PadContract ==
    (call.fn = "pkcs7Pad" /\ call.pc # "Start") =>
        LET L == Len(call.data)
            n == 16 - (L % 16)
        IN  /\ n \in 1..16
            /\ L % 16 = 0 => n = 16
            /\ Len(call.paddedPlaintext) = L + n
            /\ SubSeq(call.paddedPlaintext, 1, L) = call.data
            /\ \A i \in (L + 1)..(L + n) : call.paddedPlaintext[i] = n
            /\ Len(call.paddedPlaintext) % 16 = 0
            /\ Len(call.paddedPlaintext) >= 16
            /\ call.pc \in {"Encrypted", "Done"} =>
                  /\ Len(call.ciphertext) = Len(call.paddedPlaintext)
                  /\ Len(call.ciphertext) % 16 = 0
                  /\ Len(call.ciphertext) >= 16
            /\ call.pc = "Done" => call.outcome = Returned(call.data)

\* C18: an input of exactly one block was padded with a whole block, and
\* unpadded again.
C18_Witness ==
    /\ call.fn = "pkcs7Pad" /\ call.pc = "Done"
    /\ Len(call.data) = blockSize
    /\ Len(call.paddedPlaintext) = 2 * blockSize
    /\ call.outcome.value = call.data

\* C19: key derivation. deriveKeys(password, salt) returns the slices
\* [0,32), [32,64) and [64,80) of the one 80-byte output of PBKDF2 for the
\* password and the salt: 32, 32 and 16 bytes that do not overlap; a second
\* call with the same arguments returns the same; and it returns for every
\* password, the empty one included.
C19_KeyDerivation ==
    (call.fn = "deriveKeys" /\ call.pc # "Start") =>
        LET derivedKey == pbkdf2(Utf8Encode(call.password), call.salt, 10000, 80)
        IN  /\ Len(derivedKey) = 80
            /\ Len(call.keys1.encryptionKey) = 32
            /\ Len(call.keys1.hmacKey) = 32
            /\ Len(call.keys1.iv) = 16
            /\ call.keys1.encryptionKey \o call.keys1.hmacKey \o call.keys1.iv = derivedKey
            /\ call.pc = "Done" => call.keys2 = call.keys1

\* C19: deriveKeys has returned twice for the empty password.
C19_Witness ==
    /\ call.fn = "deriveKeys" /\ call.pc = "Done"
    /\ call.password = <<>>
    /\ Len(call.keys2.iv) = 16

\* C20: constant-time tag comparison. verifyHmac first compares the
\* lengths and returns false, with no byte examined, when they differ;
\* otherwise it examines every pair of bytes, wherever the first differing
\* one is, and returns whether the buffers are equal.
C20_ConstantTimeComparison ==
    (call.fn = "verifyHmac" /\ call.pc = "Done") =>
        /\ Len(call.expectedHmac) # Len(call.actualHmac) =>
              call.result = FALSE /\ call.examined = 0
        /\ Len(call.expectedHmac) = Len(call.actualHmac) =>
              /\ call.examined = Len(call.expectedHmac)
              /\ call.result = (call.expectedHmac = call.actualHmac)
        /\ call.result = verifyHmac(call.expectedHmac, call.actualHmac)

\* C20: verifyHmac has returned false for tags that differ in their first
\* byte, having examined all of them.
C20_Witness ==
    /\ call.fn = "verifyHmac" /\ call.pc = "Done"
    /\ Len(call.expectedHmac) = HMAC_LENGTH
    /\ Len(call.actualHmac) = HMAC_LENGTH
    /\ call.expectedHmac[1] # call.actualHmac[1]
    /\ call.result = FALSE
    /\ call.examined = HMAC_LENGTH

----------------------------------------------------------------------------
(* Claims on calls in progress at the same time, under SpecConcurrent.     *)

\* encryptVaultString(plainText, password) with the arguments of the call
\* that made the envelope the caller holds.
EncryptsHeldAgain(c) ==
    /\ call[c].op = "encrypt"
    /\ held.present
    /\ call[c].text = String(held.plainText)
    /\ call[c].password = String(held.password)

\* The encrypt has returned an envelope.
EncryptReturned(c) == call[c].op = "encrypt" /\ call[c].pc = "Done"

\* C11: salt freshness. Every encrypt that has a salt drew it itself, with
\* randomBytes, as the first thing after its argument checks, also when an
\* envelope made before is at hand. Two encrypts of the same plainText under
\* the same password that drew different salts returned different envelopes,
\* and each of the two envelopes decrypts under that password to plainText.
C11_SaltFreshness ==
    /\ \A c \in Calls :
          call[c].op = "encrypt" =>
              /\ call[c].pc \in {"Start", "Validated"} => call[c].salt = <<>>
              /\ call[c].salt # <<>> =>
                    /\ call[c].trace # <<>>
                    /\ call[c].trace[1] = "randomBytes"
                    /\ call[c].salt \in Salts
                    /\ Len(call[c].salt) = SALT_LENGTH
    /\ \A c \in Calls :
          (EncryptsHeldAgain(c) /\ EncryptReturned(c) /\ call[c].salt # held.salt) =>
              /\ call[c].result # held.envelope
              /\ decryptVaultString(String(call[c].result), call[c].password)
                    = [ok |-> TRUE, value |-> held.plainText, error |-> NoError]
              /\ decryptVaultString(String(held.envelope), String(held.password))
                    = [ok |-> TRUE, value |-> held.plainText, error |-> NoError]
    /\ \A c, d \in Calls :
          (/\ EncryptReturned(c) /\ EncryptReturned(d)
           /\ call[c].text = call[d].text /\ call[c].password = call[d].password
           /\ call[c].salt # call[d].salt) =>
              call[c].result # call[d].result

\* C11: while the caller holds an envelope, two more encrypts of the same
\* text under the same password have returned, with salts that differ and
\* envelopes that differ, one of them with the salt of the envelope held.
C11_Witness ==
    /\ held.present
    /\ \E c, d \in Calls :
          /\ EncryptsHeldAgain(c) /\ EncryptReturned(c)
          /\ EncryptsHeldAgain(d) /\ EncryptReturned(d)
          /\ call[c].salt # held.salt /\ call[c].result # held.envelope
          /\ call[d].salt = held.salt /\ call[d].result = held.envelope


\* The call of frame f is settled: resolved or rejected.
Settled(f) == f.pc \in {"Done", "Failed"}

\* The outcome in the settled frame f is the one of the same function run
\* alone with the arguments and the salt of f. A runtime failure is no
\* outcome of the arguments: it is rejected as it would be alone.
OutcomeAsAlone(f) ==
    IF f.op = "encrypt"
    THEN LET alone == encryptVaultString(f.text, f.password, f.salt)
         IN  IF f.pc = "Done"
             THEN alone.ok /\ f.result = alone.value
             ELSE IF alone.ok
                  THEN f.error \in {encryptCatch(MSG_ALLOCATION_FAILED),
                                    encryptCatch(MSG_STRING_TOO_LONG)}
                  ELSE f.error = alone.error
    ELSE LET alone == decryptVaultString(f.text, f.password)
         IN  IF f.pc = "Done"
             THEN alone.ok /\ f.result = alone.value
             ELSE ~alone.ok /\ f.error = alone.error

\* The keys in frame f are those of its own password and salt.
KeysAsAlone(f) ==
    f.encryptionKey # <<>> =>
        LET salt == IF f.op = "encrypt" THEN f.salt
                    ELSE parseVaultData(f.text.value).value.salt
            keys == deriveKeys(f.password.value, salt)
        IN  /\ f.encryptionKey = keys.encryptionKey
            /\ f.hmacKey = keys.hmacKey
            /\ f.iv = keys.iv

\* What one step does to the calls in progress.
IsolatedStep ==
    /\ \A c, d \in Calls :
          c # d => (call'[c] = call[c] \/ call'[d] = call[d])
    /\ \A c \in Calls :
          call'[c] # call[c] =>
              /\ call[c].pc = "Idle" =>
                    call'[c] = [IdleCall EXCEPT !.op = call'[c].op, !.pc = "Start",
                                                !.text = call'[c].text,
                                                !.password = call'[c].password,
                                                !.origin = call'[c].origin]
              /\ Settled(call[c]) => call'[c] = IdleCall
              /\ (call[c].pc # "Idle" /\ ~Settled(call[c])) =>
                    /\ call'[c].op = call[c].op
                    /\ call'[c].text = call[c].text
                    /\ call'[c].password = call[c].password
                    /\ call[c].salt # <<>> => call'[c].salt = call[c].salt
                    /\ KeysAsAlone(call'[c])
                    /\ Settled(call'[c]) => OutcomeAsAlone(call'[c])

\* C15: isolation of concurrent calls. Whatever the order in which the steps
\* of the encrypts and decrypts in progress are taken, a step changes the
\* variables of one call only; a call starts with nothing but its arguments
\* and leaves nothing behind once its outcome is taken; its arguments and
\* its salt never change under it, its keys are those of its own password
\* and salt, and the outcome it settles with is the outcome of the same call
\* run alone with the same arguments and salt.
C15_Isolation == [][IsolatedStep]_vars

\* C15: an encrypt is awaiting its keys while another encrypt, with another
\* salt, has resolved with the envelope it returns when run alone.
C15_Witness ==
    \E c, d \in Calls :
        /\ call[c].op = "encrypt" /\ call[c].pc = "SaltDrawn"
        /\ call[d].op = "encrypt" /\ call[d].pc = "Done"
        /\ call[d].salt # call[c].salt
        /\ call[d].result =
              encryptVaultString(call[d].text, call[d].password, call[d].salt).value


----------------------------------------------------------------------------
\* The decrypt, with a text and a password that pass its argument checks, is
\* past parseVaultData, which threw.
ParseFailed(c) ==
    /\ call[c].op = "decrypt"
    /\ IsNonEmptyString(call[c].text) /\ IsNonEmptyString(call[c].password)
    /\ call[c].pc \notin {"Start", "Validated"}
    /\ ~parseVaultData(call[c].text.value).ok

\* Key derivation was not invoked in the call.
NoKeyDerivation(c) ==
    /\ ~InTrace(c, "deriveKeys")
    /\ call[c].encryptionKey = <<>> /\ call[c].hmacKey = <<>> /\ call[c].iv = <<>>

\* The error of the call is the one the decrypt of the same text delivers
\* under every password of the model.
SameErrorUnderEveryPassword(c) ==
    \A p \in Passwords \cup OtherPasswords :
        decryptVaultString(call[c].text, String(p)).error = call[c].error

\* C25: format errors do not depend on the password. A decrypt of a text
\* that fails envelope parsing has failed without invoking key derivation,
\* and what it delivers is the format error, beginning "Invalid vault
\* format", the same under any two non-empty passwords.
C25_FormatErrorsIgnorePassword ==
    \A c \in Calls :
        ParseFailed(c) =>
            /\ call[c].pc = "Failed"
            /\ NoKeyDerivation(c)
            /\ SameErrorUnderEveryPassword(c)
            /\ StartsWith(call[c].error.message, NEEDLE_FORMAT)

----------------------------------------------------------------------------
\* C29: decrypt returns only what encrypt accepts. Whenever a decrypt has
\* succeeded, on an envelope encrypt returned or on any other, the plaintext
\* it returned is a non-empty string: one that encryptVaultString accepts
\* for plainText.
C29_DecryptReturnsEncryptable ==
    \A c \in Calls :
        (call[c].op = "decrypt" /\ call[c].pc = "Done") =>
            /\ Len(call[c].result) > 0
            /\ ~NotNonEmptyString(String(call[c].result))

----------------------------------------------------------------------------
(* Claims on parseVaultData run statement by statement, under SpecHelpers. *)

\* The first check, in the order of the statements, that the text breaks.
FirstDefect(defects) ==
    CheckOrder[CHOOSE i \in DOMAIN CheckOrder :
                  /\ CheckOrder[i] \in defects
                  /\ \A j \in 1..(i - 1) : CheckOrder[j] \notin defects]

\* The start of the message of each check.
CheckMessage(check) ==
    CASE check = "lines"            -> MSG_TOO_SHORT
      [] check = "header"           -> MSG_EXPECTED_PREFIX
      [] check = "bodyHex"          -> MSG_BODY_NON_HEX
      [] check = "parts"            -> MSG_PART_COUNT
      [] check = "componentHex"     -> MSG_COMPONENT_NON_HEX
      [] check = "saltLength"       -> MSG_SALT_PREFIX
      [] check = "hmacLength"       -> MSG_HMAC_PREFIX
      [] check = "ciphertextLength" -> MSG_CIPHERTEXT_EMPTY

IsParse == call.fn = "parseVaultData"

\* C24: parse check ordering. The checks parseVaultData has run are always
\* the first ones of the order line count, header, body hex characters,
\* part count, component hex characters, salt length, tag length,
\* ciphertext not empty. It fails at the first check of that order that the
\* text breaks, with the message of that check, and has run no check after
\* it; it returns only for a text that breaks none, after all eight. The
\* function the decrypt calls gives the same outcome after the same checks.
C24_ParseCheckOrder ==
    IsParse =>
        /\ call.checks = SubSeq(CheckOrder, 1, Len(call.checks))
        /\ call.pc = "Failed" =>
              /\ call.defects # {}
              /\ call.checks # <<>>
              /\ call.checks[Len(call.checks)] = FirstDefect(call.defects)
              /\ ~call.outcome.ok
              /\ StartsWith(call.outcome.error,
                            CheckMessage(FirstDefect(call.defects)))
        /\ call.pc = "Done" =>
              /\ call.defects = {}
              /\ call.checks = CheckOrder
              /\ call.outcome.ok
        /\ call.pc \notin {"Failed", "Done"} =>
              \A i \in DOMAIN call.checks : call.checks[i] \notin call.defects
        /\ call.pc \in {"Failed", "Done"} =>
              LET parsed == parseVaultData(call.encryptedText)
              IN  /\ parsed.ok = call.outcome.ok
                  /\ parsed.error = call.outcome.error
                  /\ parsed.checks = call.checks
                  /\ parsed.ok => parsed.value = call.outcome.value

\* C24: a text whose salt and tag both have a wrong length, and which breaks
\* no earlier check, has failed at the salt with the message of the salt.
C24_Witness ==
    /\ IsParse /\ call.pc = "Failed"
    /\ {"saltLength", "hmacLength"} \subseteq call.defects
    /\ call.checks =
          <<"lines", "header", "bodyHex", "parts", "componentHex", "saltLength">>
    /\ StartsWith(call.outcome.error, MSG_SALT_PREFIX)

\* The body of a text: what follows its first line, without white space and
\* with its hex letters in lower case.
NormalBody(text) ==
    LET hexData == SelectSeq(JoinAfterFirst(Trim(text)), LAMBDA ch : ~IsWhiteSpace(ch))
    IN  [i \in 1..Len(hexData) |->
            IF hexData[i] \in 65..70 THEN hexData[i] + 32 ELSE hexData[i]]

\* Texts near an accepted one: a digit more at the end of the body, a digit
\* more at the end of the salt, of the tag, of the ciphertext, the last
\* digit of the body changed, and the body in upper case.
NearTexts(frame) ==
    LET text == frame.encryptedText
        wider(i) == VaultOf(expectedHeader,
                            frame.parts[1] \o (IF i = 1 THEN <<97>> ELSE <<>>) \o <<LF>>
                                \o frame.parts[2] \o (IF i = 2 THEN <<97>> ELSE <<>>)
                                \o <<LF>>
                                \o frame.parts[3] \o (IF i = 3 THEN <<97>> ELSE <<>>))
    IN  {text \o <<97>>, wider(1), wider(2), wider(3),
         SubSeq(text, 1, Len(text) - 1) \o <<IF text[Len(text)] = 48 THEN 49 ELSE 48>>,
         [i \in 1..Len(text) |->
             IF i > Len(expectedHeader) /\ text[i] \in 97..102
             THEN text[i] - 32 ELSE text[i]]}

\* C27: unambiguous parsing. When parseVaultData accepts a text and a text
\* near it whose body, without white space and hex letter case, is another,
\* the salt, tag and ciphertext it returns for the two are not all the same:
\* no hex digit of an accepted body or component goes unread.
C27_UnambiguousParsing ==
    (IsParse /\ call.pc = "Done") =>
        \A other \in NearTexts(call) :
            LET parsed == parseVaultData(other)
            IN  (parsed.ok /\ NormalBody(other) # NormalBody(call.encryptedText)) =>
                    parsed.value # call.outcome.value

\* The first line of a text of two lines or more, and the characters after
\* it that are no white space.
HeaderOf(text) ==
    SubSeq(text, 1, (CHOOSE i \in DOMAIN text :
                        text[i] = LF /\ \A j \in 1..(i - 1) : text[j] # LF) - 1)

BodyOf(text) ==
    SelectSeq(SubSeq(text, Len(HeaderOf(text)) + 2, Len(text)),
              LAMBDA ch : ~IsWhiteSpace(ch))

\* C28: line wrapping is irrelevant to parsing. The outcome of parseVaultData
\* for a text of two lines or more, the three buffers or the error, is the
\* outcome it has for the same first line followed by the same digits laid
\* out in any other way: in one line longer than 80 characters, in lines of
\* 80, with blank lines, with CR LF line ends, with spaces between digits.
C28_WrappingIrrelevant ==
    (/\ IsParse /\ call.pc \in {"Done", "Failed"}
     /\ \E i \in DOMAIN call.encryptedText : call.encryptedText[i] = LF) =>
        \A kind \in LayoutKinds :
            LET other  == Laid(HeaderOf(call.encryptedText),
                               BodyOf(call.encryptedText), kind)
                parsed == parseVaultData(other)
            IN  /\ parsed.ok = call.outcome.ok
                /\ parsed.error = call.outcome.error
                /\ parsed.ok => parsed.value = call.outcome.value

\* C28: an envelope in lines of 7 digits ending in CR LF has been parsed to
\* the three buffers that its 80-column form gives.
C28_Witness ==
    /\ IsParse /\ call.pc = "Done"
    /\ Includes(call.encryptedText, <<CR, LF>>)
    /\ Len(SplitLines(call.encryptedText)) > 50
    /\ LET wrapped == Laid(HeaderOf(call.encryptedText), BodyOf(call.encryptedText),
                           "wrapped")
       IN  /\ wrapped # call.encryptedText
           /\ \A i \in 2..Len(SplitLines(wrapped)) : Len(SplitLines(wrapped)[i]) <= 80
           /\ parseVaultData(wrapped).value = call.outcome.value

----------------------------------------------------------------------------
(* The server actions encrypt and decrypt of app/actions/vault.ts. Under   *)
(* SpecActions the variable call is the frame of one action, with the form *)
(* it was submitted with, and held is what the page keeps of the encrypt   *)
(* action whose result it submits to the decrypt action.                   *)

\* "Text is required"
MSG_TEXT_REQUIRED ==
    <<84, 101, 120, 116, 32, 105, 115, 32, 114, 101, 113, 117, 105, 114,
      101, 100>>
\* "Encrypted text is required"
MSG_ENCRYPTED_REQUIRED ==
    <<69, 110, 99, 114, 121, 112, 116, 101, 100, 32, 116, 101, 120, 116, 32,
      105, 115, 32, 114, 101, 113, 117, 105, 114, 101, 100>>
\* "Password is required"
MSG_FIELD_PASSWORD_REQUIRED ==
    <<80, 97, 115, 115, 119, 111, 114, 100, 32, 105, 115, 32, 114, 101, 113,
      117, 105, 114, 101, 100>>
\* "Encryption failed. Please verify the password and try again."
MSG_ENCRYPTION_FAILED ==
    <<69, 110, 99, 114, 121, 112, 116, 105, 111, 110, 32, 102, 97, 105, 108,
      101, 100, 46, 32, 80, 108, 101, 97, 115, 101, 32, 118, 101, 114, 105,
      102, 121, 32, 116, 104, 101, 32, 112, 97, 115, 115, 119, 111, 114,
      100, 32, 97, 110, 100, 32, 116, 114, 121, 32, 97, 103, 97, 105, 110,
      46>>
\* "Decryption failed. Please confirm the password and vault format, then try again."
MSG_DECRYPTION_FAILED ==
    <<68, 101, 99, 114, 121, 112, 116, 105, 111, 110, 32, 102, 97, 105, 108,
      101, 100, 46, 32, 80, 108, 101, 97, 115, 101, 32, 99, 111, 110, 102,
      105, 114, 109, 32, 116, 104, 101, 32, 112, 97, 115, 115, 119, 111,
      114, 100, 32, 97, 110, 100, 32, 118, 97, 117, 108, 116, 32, 102, 111,
      114, 109, 97, 116, 44, 32, 116, 104, 101, 110, 32, 116, 114, 121, 32,
      97, 103, 97, 105, 110, 46>>

\* A form entry that is a File.
File == [type |-> "file", value |-> <<>>]

\* extractString(value)
extractString(value) == IF value.type = "string" THEN value.value ELSE <<>>

\* safeParseIssues with the issue of the password before that of the text.
safeParseIssuesPasswordFirst(fn, text, password) ==
    (IF Len(password) < 1 THEN <<MSG_FIELD_PASSWORD_REQUIRED>> ELSE <<>>)
        \o (IF Len(text) < 1
            THEN <<IF fn = "encrypt" THEN MSG_TEXT_REQUIRED ELSE MSG_ENCRYPTED_REQUIRED>>
            ELSE <<>>)

\* The messages of the issues of schema.safeParse({text, password}), in the
\* order of the keys of the schema: z.string().min(1, message) each.
safeParseIssues(fn, text, password) ==
    (IF Len(text) < 1
     THEN <<IF fn = "encrypt" THEN MSG_TEXT_REQUIRED ELSE MSG_ENCRYPTED_REQUIRED>>
     ELSE <<>>)
        \o (IF Len(password) < 1 THEN <<MSG_FIELD_PASSWORD_REQUIRED>> ELSE <<>>)

NoCodecOutcome == [ok |-> FALSE, value |-> <<>>, error |-> NoError]

\* { success: true, result }
Success(result) == [success |-> TRUE, result |-> result, error |-> <<>>]

\* { success: false, error }
Failure(error) == [success |-> FALSE, result |-> <<>>, error |-> error]

ActionFrame(fn, text, password) ==
    [fn |-> fn, pc |-> "Start",
     form |-> [text |-> text, password |-> password],
     data |-> [text |-> <<>>, password |-> <<>>],
     codecCalls |-> <<>>, codec |-> NoCodecOutcome,
     outcome |-> Failure(<<>>)]

\* ActionParse trimming the text and leaving the password as submitted.
ActionParsePasswordUntrimmed ==
    /\ call.fn \in {"encrypt", "decrypt"} /\ call.pc = "Start"
    /\ LET text     == Trim(extractString(call.form.text))
           password == extractString(call.form.password)
           issues   == safeParseIssues(call.fn, text, password)
       IN  IF issues # <<>>
           THEN call' = [call EXCEPT !.pc = "Done", !.outcome = Failure(issues[1])]
           ELSE call' = [call EXCEPT !.pc = "Parsed",
                                     !.data = [text |-> text, password |-> password]]
    /\ UNCHANGED held

\* schema.safeParse of the two entries, extracted and trimmed; a failure
\* returns validationError(parsed.error), the message of the first issue.
ActionParse ==
    /\ call.fn \in {"encrypt", "decrypt"} /\ call.pc = "Start"
    /\ LET text     == Trim(extractString(call.form.text))
           password == Trim(extractString(call.form.password))
           issues   == safeParseIssues(call.fn, text, password)
       IN  IF issues # <<>>
           THEN call' = [call EXCEPT !.pc = "Done", !.outcome = Failure(issues[1])]
           ELSE call' = [call EXCEPT !.pc = "Parsed",
                                     !.data = [text |-> text, password |-> password]]
    /\ UNCHANGED held

\* await encryptVaultString(parsed.data.plainText, parsed.data.password) or
\* await decryptVaultString(parsed.data.encryptedText, parsed.data.password)
ActionCallCodec ==
    /\ call.fn \in {"encrypt", "decrypt"} /\ call.pc = "Parsed"
    /\ \E salt \in Salts :
          /\ call.fn = "decrypt" => salt = CHOOSE s \in Salts : TRUE
          /\ call' = [call EXCEPT
                        !.pc = "Awaited",
                        !.codecCalls = Append(@, <<call.data.text, call.data.password>>),
                        !.codec = IF call.fn = "encrypt"
                                  THEN encryptVaultString(String(call.data.text),
                                                          String(call.data.password),
                                                          salt)
                                  ELSE decryptVaultString(String(call.data.text),
                                                          String(call.data.password))]
    /\ UNCHANGED held

\* The encrypt called fails in the runtime and rejects.
ActionCodecRuntimeError ==
    /\ call.fn = "encrypt" /\ call.pc = "Parsed"
    /\ \E message \in {MSG_ALLOCATION_FAILED, MSG_STRING_TOO_LONG} :
          call' = [call EXCEPT
                     !.pc = "Awaited",
                     !.codecCalls = Append(@, <<call.data.text, call.data.password>>),
                     !.codec = [ok |-> FALSE, value |-> <<>>,
                                error |-> encryptCatch(message)]]
    /\ UNCHANGED held

\* ActionReturn handing the message of the codec to the page.
ActionReturnLeaksMessage ==
    /\ call.fn \in {"encrypt", "decrypt"} /\ call.pc = "Awaited"
    /\ call' = [call EXCEPT
                  !.pc = "Done",
                  !.outcome = IF call.codec.ok
                              THEN Success(call.codec.value)
                              ELSE Failure(call.codec.error.message)]
    /\ UNCHANGED held

\* return { success: true, result } or, from the catch without a binding,
\* the fixed message of the action.
ActionReturn ==
    /\ call.fn \in {"encrypt", "decrypt"} /\ call.pc = "Awaited"
    /\ call' = [call EXCEPT
                  !.pc = "Done",
                  !.outcome = IF call.codec.ok
                              THEN Success(call.codec.value)
                              ELSE IF call.fn = "encrypt"
                                   THEN Failure(MSG_ENCRYPTION_FAILED)
                                   ELSE Failure(MSG_DECRYPTION_FAILED)]
    /\ UNCHANGED held

\* " \t", "\n ": white space put around a form value.
PadLeft == <<32, 9>>
PadRight == <<10, 32>>

\* The page submits the result of the encrypt action to the decrypt action,
\* as it is or with white space around it, with the password value it
\* submitted before or with another.
ActionResubmit ==
    /\ call.fn = "encrypt" /\ call.pc = "Done" /\ call.outcome.success
    /\ \E text \in {call.outcome.result, PadLeft \o call.outcome.result \o PadRight},
          password \in {call.form.password, String(ConcurrentWrongPassword)} :
          call' = ActionFrame("decrypt", String(text), password)
    /\ held' = [NoEnvelope EXCEPT !.present = TRUE,
                                  !.envelope = call.outcome.result,
                                  !.plainText = call.form.text.value,
                                  !.password = call.form.password.value,
                                  !.salt = parseVaultData(call.outcome.result).value.salt]

\* Form values of the text field of the encrypt action: "a", " a", "a\n",
\* "\ta b ", a text of several bytes a character, " ", "", a File, none.
FormPlainTexts ==
    {String(<<97>>), String(<<32, 97>>), String(<<97, 10>>),
     String(<<9, 97, 32, 98, 32>>),
     String(<<72, 233, 10, 19990, 32, 127757>>),
     String(<<32>>), String(<<>>), File, Null}

\* Form values of the password field: "pw", " pw ", "p w", "\n", "", a
\* File, none.
FormPasswords ==
    {String(<<112, 119>>), String(<<32, 112, 119, 32>>), String(<<112, 32, 119>>),
     String(<<10>>), String(<<>>), File, Null}

\* Form values of the text field of the decrypt action that no encrypt
\* returned: envelopes breaking a rule of the format, forged ones, and
\* values that are no text.
FormEncryptedTexts ==
    {String(t.text) : t \in CraftedTexts \cup ForgedTexts}
        \cup {String(<<32, 10>>), String(<<>>), File, Null}

ActionFrames ==
    {ActionFrame("encrypt", text, password) :
        text \in FormPlainTexts, password \in FormPasswords}
        \cup {ActionFrame("decrypt", text, password) :
                text \in FormEncryptedTexts,
                password \in {String(<<112, 119>>), String(<<32>>), Null}}

ActionsInit ==
    /\ call \in ActionFrames
    /\ held = NoEnvelope

ActionsNext ==
    \/ ActionParse
    \/ ActionCallCodec
    \/ ActionCodecRuntimeError
    \/ ActionReturn
    \/ ActionResubmit

SpecActions == ActionsInit /\ [][ActionsNext]_vars


----------------------------------------------------------------------------
(* Claims on the server actions, under SpecActions.                        *)

\* The form value is missing, a File, empty, or white space only.
EmptyAfterTrim(v) ==
    v.type # "string" \/ \A i \in DOMAIN v.value : IsWhiteSpace(v.value[i])

\* The message for the text field of the action running.
TextFieldMessage ==
    IF call.fn = "encrypt" THEN MSG_TEXT_REQUIRED ELSE MSG_ENCRYPTED_REQUIRED

IsAction == call.fn \in {"encrypt", "decrypt"}

\* C21: the server actions validate before they call the codec. Once an
\* action is past its safeParse with a text field or a password field that
\* is missing, no string, empty, or empty once trimmed, it has returned
\* {success: false, error} with the message of the first such field, the
\* text before the password, and has not called the codec; with two fields
\* that are not so, it does not return before it has called the codec.
C21_ValidateBeforeCodec ==
    (IsAction /\ call.pc # "Start") =>
        IF EmptyAfterTrim(call.form.text) \/ EmptyAfterTrim(call.form.password)
        THEN /\ call.pc = "Done"
             /\ call.codecCalls = <<>>
             /\ call.outcome =
                   [success |-> FALSE, result |-> <<>>,
                    error |-> IF EmptyAfterTrim(call.form.text)
                              THEN TextFieldMessage
                              ELSE MSG_FIELD_PASSWORD_REQUIRED]
        ELSE call.pc = "Done" => Len(call.codecCalls) = 1

\* C21: an action submitted with a File for the text and a line feed for
\* the password has returned the message of the text field without a call
\* of the codec.
C21_Witness ==
    /\ IsAction /\ call.pc = "Done"
    /\ call.form.text = File
    /\ call.form.password = String(<<10>>)
    /\ call.outcome.error = MSG_TEXT_REQUIRED
    /\ call.codecCalls = <<>>


\* The codec was called and rejected.
CodecRejected == IsAction /\ call.codecCalls # <<>> /\ ~call.codec.ok

\* C22: the server actions collapse every failure of the codec. An action
\* whose codec call rejected, with whatever error, returns {success: false}
\* with the one message of that action, and nothing of the error of the
\* codec; an action is never left in a state other than one of its own
\* steps or its return.
C22_FailuresCollapsed ==
    IsAction =>
        /\ call.pc \in {"Start", "Parsed", "Awaited", "Done"}
        /\ (CodecRejected /\ call.pc = "Done") =>
              call.outcome =
                 [success |-> FALSE, result |-> <<>>,
                  error |-> IF call.fn = "encrypt"
                            THEN MSG_ENCRYPTION_FAILED
                            ELSE MSG_DECRYPTION_FAILED]

\* C22: the decrypt action has returned its fixed message after the codec
\* rejected an envelope with a message naming the broken rule of the format.
C22_Witness ==
    /\ CodecRejected /\ call.pc = "Done" /\ call.fn = "decrypt"
    /\ StartsWith(call.codec.error.message, NEEDLE_FORMAT)
    /\ call.codec.error.message # NEEDLE_FORMAT
    /\ call.outcome.error = MSG_DECRYPTION_FAILED


\* t is s without the white space at its start and at its end.
IsTrimOf(t, s) ==
    /\ Len(t) <= Len(s)
    /\ t # <<>> => (~IsWhiteSpace(t[1]) /\ ~IsWhiteSpace(t[Len(t)]))
    /\ \E i \in 0..(Len(s) - Len(t)) :
          /\ \A k \in 1..i : IsWhiteSpace(s[k])
          /\ \A k \in (i + Len(t) + 1)..Len(s) : IsWhiteSpace(s[k])
          /\ \A k \in 1..Len(t) : s[i + k] = t[k]

\* C23: the server actions trim their inputs. What an action passes to the
\* codec, in its one call, is the text field and the password field of the
\* form, each without its leading and trailing white space and otherwise
\* unchanged, white space inside included.
C23_ActionsTrim ==
    (IsAction /\ call.codecCalls # <<>>) =>
        /\ Len(call.codecCalls) = 1
        /\ call.form.text.type = "string"
        /\ call.form.password.type = "string"
        /\ IsTrimOf(call.codecCalls[1][1], call.form.text.value)
        /\ IsTrimOf(call.codecCalls[1][2], call.form.password.value)

\* C23: the encrypt action submitted with "\ta b " and " pw " has called
\* the codec with "a b" and "pw".
C23_Witness ==
    /\ call.fn = "encrypt" /\ call.pc = "Done"
    /\ call.form.text = String(<<9, 97, 32, 98, 32>>)
    /\ call.form.password = String(<<32, 112, 119, 32>>)
    /\ call.codecCalls = << <<(<<97, 32, 98>>), (<<112, 119>>)>> >>


\* The decrypt action was submitted with the result of the encrypt action,
\* as returned, and with the password value submitted to the encrypt action.
ResubmittedAsReturned ==
    /\ call.fn = "decrypt"
    /\ held.present
    /\ call.form.text = String(held.envelope)
    /\ call.form.password = String(held.password)

\* C26, as stated: through the server actions the round trip is exact. The
\* decrypt action submitted with the result of a successful encrypt action
\* and the same password value returns success with the plainText exactly
\* as it was submitted to the encrypt action.
C26_ActionRoundTripExact ==
    (ResubmittedAsReturned /\ call.pc = "Done") =>
        /\ call.outcome.success
        /\ call.outcome.result = held.plainText

\* C26, amended: the decrypt action submitted with the result of a
\* successful encrypt action and the same password value returns success
\* with the plainText as it was submitted to the encrypt action less its
\* leading and trailing white space.
C26_ActionRoundTripTrimmed ==
    (ResubmittedAsReturned /\ call.pc = "Done") =>
        /\ call.outcome.success
        /\ call.outcome.error = <<>>
        /\ IsTrimOf(call.outcome.result, held.plainText)

\* C26: the round trip of "\ta b " under " pw " through the two actions has
\* returned "a b".
C26_Witness ==
    /\ ResubmittedAsReturned /\ call.pc = "Done" /\ call.outcome.success
    /\ held.plainText = <<9, 97, 32, 98, 32>>
    /\ held.password = <<32, 112, 119, 32>>
    /\ call.outcome.result = <<97, 32, 98>>


----------------------------------------------------------------------------
(* The component DecryptForm. Under SpecForm the variable call is the      *)
(* state of one mounted form: its useState values, isPending of its        *)
(* transition, the clipboard writes and timers of handleCopy in flight,    *)
(* and the last two responses of the decrypt action; held stays empty.     *)

\* handleCopy calls in flight (clipboard writes and timers) at once.
MaxCopies == 2

\* What the decrypt action returns: success with a text ("a", "b", or the
\* empty text), or failure with one of its three messages.
Responses ==
    {Success(result) : result \in {<<97>>, <<98>>, <<>>}}
        \cup {Failure(error) : error \in {MSG_DECRYPTION_FAILED, MSG_ENCRYPTED_REQUIRED,
                                          MSG_FIELD_PASSWORD_REQUIRED}}

NoResponse == [success |-> FALSE, result |-> <<>>, error |-> <<>>]

\* The state of the form as useState initialises it.
FormInit ==
    [fn |-> "DecryptForm",
     result |-> <<>>, error |-> Null, showPassword |-> FALSE, copied |-> FALSE,
     isPending |-> FALSE, showResult |-> FALSE,
     writing |-> 0, timers |-> 0,
     last |-> NoResponse, previous |-> NoResponse]

\* handleSubmit: startTransition(async () => { await decrypt(formData) ...
\* The submit button and the fields are disabled while isPending.
HandleSubmit ==
    /\ call.fn = "DecryptForm" /\ ~call.isPending
    /\ call' = [call EXCEPT !.isPending = TRUE]
    /\ UNCHANGED held

\* HandleSubmitResponse leaving the former result in place on a failure.
HandleSubmitResponseKeepsResult ==
    /\ call.fn = "DecryptForm" /\ call.isPending
    /\ \E response \in Responses :
          call' = IF response.success
                  THEN [call EXCEPT !.result = response.result, !.error = Null,
                                    !.showResult = TRUE, !.isPending = FALSE,
                                    !.previous = call.last, !.last = response]
                  ELSE [call EXCEPT !.error = String(response.error),
                                    !.isPending = FALSE,
                                    !.previous = call.last, !.last = response]
    /\ UNCHANGED held

\* The response of the decrypt action arrives and the two branches of
\* handleSubmit set the state; the transition ends.
HandleSubmitResponse ==
    /\ call.fn = "DecryptForm" /\ call.isPending
    /\ \E response \in Responses :
          call' = IF response.success
                  THEN [call EXCEPT !.result = response.result, !.error = Null,
                                    !.showResult = TRUE, !.isPending = FALSE,
                                    !.previous = call.last, !.last = response]
                  ELSE [call EXCEPT !.result = <<>>, !.showResult = FALSE,
                                    !.error = String(response.error),
                                    !.isPending = FALSE,
                                    !.previous = call.last, !.last = response]
    /\ UNCHANGED held

\* handleCopy up to its await: the button is rendered with the result and
\* disabled without one, and the handler returns at once if (!result).
HandleCopy ==
    /\ call.fn = "DecryptForm"
    /\ call.showResult /\ call.result # <<>>
    /\ call.writing + call.timers < MaxCopies
    /\ call' = [call EXCEPT !.writing = @ + 1]
    /\ UNCHANGED held

\* The clipboard write resolves: setCopied(true) and the timer of 2000 ms.
HandleCopyWritten ==
    /\ call.fn = "DecryptForm" /\ call.writing > 0
    /\ call' = [call EXCEPT !.writing = @ - 1, !.copied = TRUE, !.timers = @ + 1]
    /\ UNCHANGED held

\* setTimeout(() => setCopied(false), 2000) fires.
CopiedTimeout ==
    /\ call.fn = "DecryptForm" /\ call.timers > 0
    /\ call' = [call EXCEPT !.timers = @ - 1, !.copied = FALSE]
    /\ UNCHANGED held

\* handleReset, on the reset of the form; the Clear button is disabled
\* while isPending.
HandleReset ==
    /\ call.fn = "DecryptForm" /\ ~call.isPending
    /\ call' = [call EXCEPT !.result = <<>>, !.error = Null, !.copied = FALSE,
                            !.showResult = FALSE]
    /\ UNCHANGED held

\* onClick={() => setShowPassword((prev) => !prev)}
TogglePassword ==
    /\ call.fn = "DecryptForm" /\ ~call.isPending
    /\ call' = [call EXCEPT !.showPassword = ~@]
    /\ UNCHANGED held

FormSpecInit ==
    /\ call = FormInit
    /\ held = NoEnvelope

FormNext ==
    \/ HandleSubmit
    \/ HandleSubmitResponse
    \/ HandleCopy
    \/ HandleCopyWritten
    \/ CopiedTimeout
    \/ HandleReset
    \/ TogglePassword

SpecForm == FormSpecInit /\ [][FormNext]_vars

\* What the form shows is in step with the responses it has had.
NoStaleOutput ==
    /\ call.error # Null => (call.result = <<>> /\ ~call.showResult)
    /\ call.showResult =>
          /\ call.error = Null
          /\ call.last.success
          /\ call.last # NoResponse
          /\ call.result = call.last.result

\* C30: DecryptForm never shows stale output. After any sequence of
\* submissions, their responses, copies and Clear actions: when an error is
\* set, result is empty and showResult is false; when showResult is true,
\* error is null and result is the result of the most recent response, which
\* was a success. Every Clear action leaves result, error, copied and
\* showResult at their initial values and the rest as it was.
C30_NoStaleOutput ==
    /\ [](call.fn = "DecryptForm" => NoStaleOutput)
    /\ [][HandleReset =>
             call' = [call EXCEPT !.result = FormInit.result,
                                  !.error = FormInit.error,
                                  !.copied = FormInit.copied,
                                  !.showResult = FormInit.showResult]]_vars

\* C30: the form shows "b", the result of the response it had last, after a
\* response before it that was a failure.
C30_Witness ==
    /\ call.fn = "DecryptForm"
    /\ call.showResult /\ call.result = <<98>> /\ call.error = Null
    /\ call.last = [success |-> TRUE, result |-> <<98>>, error |-> <<>>]
    /\ ~call.previous.success /\ call.previous.error = MSG_DECRYPTION_FAILED

====
